---- MODULE Spec2Model ----
(***************************************************************************)
(* HTTP media streaming of a file of a torrent (qBittorrent streaming      *)
(* branch): the Range header parser, the request dispatch of               *)
(* StreamingManager, the read cursor of StreamFile (ReadRequestPrivate)    *)
(* and the piece scheduling of StreamFile::doRead; the StreamingServer     *)
(* with its connections, responses and pending requests; and, of the RSS   *)
(* HtmlBrowser, the NetImageLoader and the ImageCache.                     *)
(*                                                                         *)
(* Text is a sequence of one-character strings.  A block of file data is   *)
(* the interval [lo, hi) of torrent offsets it holds: the byte at torrent  *)
(* offset i is "byte i", so two blocks are the same data exactly when      *)
(* they are the same interval.                                             *)
(***************************************************************************)
EXTENDS Integers, Sequences, FiniteSets, TLC

VARIABLES
    info,       \* the torrent's metadata (TorrentInfo): piece length, file place
    files,      \* StreamingManager::m_files, the registry of StreamFiles
    tor,        \* the torrent's pieces: available ones, deadlines, resets
    conn,       \* the Http::Connection of the request: socket, calls, write queue
    rr,         \* the ReadRequestPrivate (read cursor) of the GET, if any
    pieceReqs,  \* the PieceRequests in flight, children of the cursor
    http,       \* the request handled on the connection, once it is
    rq,         \* SpecRange: the input of Range::fromHttpRangeField
    rres,       \* SpecRange: its result, or NoResult before the call
    server,     \* the listener (QTcpServer) behind StreamingManager::m_server
    call,       \* SpecManager: the last call made on the StreamingManager
    sconn,      \* SpecConnection: a StreamingConnection of the StreamingServer
    sched,      \* SpecSchedule: the last doRead, its timing and its engine calls
    responses,  \* SpecResponse: the StreamResponses of the connection's requests
    pending,    \* SpecPending: StreamingServer::m_pendingRequest and its requests
    loader,     \* SpecLoader: the NetImageLoader of the HtmlBrowser
    cache       \* SpecCache: the HtmlBrowser::ImageCache

streamVars == <<info, files, tor, conn, rr, pieceReqs, http>>
rangeVars == <<rq, rres>>
managerVars == <<files, server, call>>
vars == <<info, files, tor, conn, rr, pieceReqs, http, rq, rres, server, call, sconn,
          sched, responses, pending, loader, cache>>

Min(a, b) == IF a < b THEN a ELSE b
Max(a, b) == IF a > b THEN a ELSE b

(***************************************************************************)
(* QString primitives used by the parser.                                  *)
(***************************************************************************)
Digits == <<"0", "1", "2", "3", "4", "5", "6", "7", "8", "9">>

IsDigit(c) == \E d \in 1..10 : Digits[d] = c

DigitValue(c) == (CHOOSE d \in 1..10 : Digits[d] = c) - 1

\* QString::indexOf(ch, from): the 0-based index of the first ch at or after
\* from, -1 when there is none.
IndexOf(s, ch, from) ==
    LET hits == {i \in from..(Len(s) - 1) : s[i + 1] = ch}
    IN  IF hits = {} THEN -1 ELSE CHOOSE i \in hits : \A j \in hits : i <= j

\* QString::left(n)
Left(s, n) == SubSeq(s, 1, Min(Max(n, 0), Len(s)))

\* QString::midRef(pos, n): n characters from the 0-based pos, cut at the end
MidRef(s, pos, n) ==
    IF pos > Len(s) THEN <<>>
    ELSE SubSeq(s, pos + 1, Min(pos + Max(n, 0), Len(s)))

\* QString::midRef(pos): the rest from pos
MidRefRest(s, pos) == MidRef(s, pos, Len(s))

RECURSIVE DecimalValue(_)
DecimalValue(s) ==
    IF s = <<>> THEN 0
    ELSE 10 * DecimalValue(SubSeq(s, 1, Len(s) - 1)) + DigitValue(s[Len(s)])

\* QStringRef::toULongLong(&ok): ok only for a non-empty run of decimal
\* digits, and 0 when not ok.
ToULongLong(s) ==
    LET valid == s # <<>> /\ \A i \in 1..Len(s) : IsDigit(s[i])
    IN  [ok |-> valid, val |-> IF valid THEN DecimalValue(s) ELSE 0]

\* QString::number(n) for n >= 0
RECURSIVE Number(_)
Number(n) ==
    IF n < 10 THEN <<Digits[n + 1]>>
    ELSE Number(n \div 10) \o <<Digits[(n % 10) + 1]>>

(***************************************************************************)
(* Range::fromHttpRangeField                                               *)
(***************************************************************************)
BytesUnit == <<"b", "y", "t", "e", "s">>

\* Range{} with ok = false
NoRange == [ok |-> FALSE, firstBytePos |-> 0, lastBytePos |-> 0]

fromHttpRangeField(value, fileSize) ==
    LET unitRangeSeparatorIndex == IndexOf(value, "=", 0)
        rangeSeparatorIndex == IndexOf(value, "-", unitRangeSeparatorIndex + 1)
        first == ToULongLong(MidRef(value, unitRangeSeparatorIndex + 1,
                                    rangeSeparatorIndex - unitRangeSeparatorIndex - 1))
        last == ToULongLong(MidRefRest(value, rangeSeparatorIndex + 1))
        \* lastBytePos is optional: when it is no integer, the end of the file
        lastBytePos == IF last.ok THEN last.val ELSE fileSize - 1
    IN  IF unitRangeSeparatorIndex = -1 THEN NoRange
        ELSE IF Left(value, unitRangeSeparatorIndex) # BytesUnit THEN NoRange
        ELSE IF rangeSeparatorIndex = -1 THEN NoRange
        ELSE IF ~first.ok THEN NoRange
        ELSE IF first.val > lastBytePos THEN NoRange
        ELSE [ok |-> TRUE, firstBytePos |-> first.val, lastBytePos |-> lastBytePos]

\* SpecRange: no result yet
NoResult == [ok |-> FALSE, firstBytePos |-> -1, lastBytePos |-> -1]

\* Mutant of RangeSize: the size without the last byte
RangeSizeOffByOne(range) == range.lastBytePos - range.firstBytePos

\* Range::size()
RangeSize(range) == range.lastBytePos - range.firstBytePos + 1


(***************************************************************************)
(* The torrent (BitTorrent::Torrent, TorrentInfo): one torrent, whose file *)
(* 0 is the streamed file, starting fileOffset bytes into the torrent and  *)
(* followed by totalSize - fileOffset - fileSize bytes of other files.     *)
(***************************************************************************)
MiB == 1024 * 1024
BUFFER_SIZE == 32 * MiB
DEADLINE_TIME == 8

CeilDiv(a, b) == (a + b - 1) \div b

\* TorrentInfo::piecesCount
NumPieces(i) == CeilDiv(i.totalSize, i.pieceLength)

PieceIndices(i) == 0..(NumPieces(i) - 1)

\* TorrentInfo::filePieces(fileIndex).last()
LastFilePiece(i) == (i.fileOffset + i.fileSize - 1) \div i.pieceLength

\* TorrentInfo::mapFile(fileIndex, offset, size): the piece holding the file
\* offset, the offset's place in it, and the part of size lying in it.
MapFile(i, offset, size) ==
    LET at == i.fileOffset + offset
        start == at % i.pieceLength
    IN  [index |-> at \div i.pieceLength,
         start |-> start,
         length |-> Min(size, i.pieceLength - start)]

\* The data of a piece, as read by PieceRequest::complete: the torrent's
\* bytes [lo, hi) of that piece; the torrent's last piece may be short.
PieceData(i, index) ==
    [lo |-> index * i.pieceLength,
     hi |-> Min((index + 1) * i.pieceLength, i.totalSize)]

\* Mutant of BlockMid: the whole rest of the block, the length not applied
BlockMidToEnd(data, pos, len) ==
    [lo |-> Min(data.lo + pos, data.hi), hi |-> data.hi]

\* QByteArray::mid(pos, len) on a block: cut at the block's end
BlockMid(data, pos, len) ==
    LET lo == Min(data.lo + pos, data.hi)
    IN  [lo |-> lo, hi |-> Min(lo + Max(len, 0), data.hi)]

BlockSize(b) == b.hi - b.lo

\* Torrent::havePiece
HavePiece(t, index) == index \in t.have

\* Torrent::setPieceDeadline(index, deadline, ...): the engine holds the
\* deadline until the piece is downloaded or the deadline is reset.
SetPieceDeadline(t, index, deadline) ==
    [t EXCEPT !.deadline[index] = deadline,
              !.issued = @ \cup {index}]

\* Torrent::resetPieceDeadline(index)
ResetPieceDeadline(t, index) ==
    [t EXCEPT !.deadline[index] = 0,
              !.resets[index] = @ + 1]

RECURSIVE ResetPieceDeadlines(_, _, _)
ResetPieceDeadlines(t, from, to) ==
    IF from > to THEN t
    ELSE ResetPieceDeadlines(ResetPieceDeadline(t, from), from + 1, to)

(***************************************************************************)
(* Http::Connection: the calls made on it, in order, each with whether the *)
(* socket was open (a call on a closed socket writes nothing), and the     *)
(* bytes queued for writing.                                               *)
(***************************************************************************)
StatusLineBytes == 32
HeaderFieldBytes == 48

\* An accepted connection.  disconnected: the client went away.
NewConnection ==
    [open |-> TRUE, disconnected |-> FALSE, destroyed |-> FALSE,
     log |-> <<>>, queued |-> 0]

Call(c, entry) == [c EXCEPT !.log = Append(@, entry @@ [open |-> c.open])]

Queue(c, n) == IF c.open THEN [c EXCEPT !.queued = @ + n] ELSE c

\* Connection::sendStatus
SendStatus(c, code) ==
    Call(Queue(c, StatusLineBytes), [op |-> "status", code |-> code])

\* Connection::sendHeaders
SendHeaders(c, headers) ==
    Call(Queue(c, HeaderFieldBytes * Cardinality(DOMAIN headers)),
         [op |-> "headers", headers |-> headers])

\* Connection::sendContent of file data
SendContent(c, block) ==
    Call(Queue(c, BlockSize(block)), [op |-> "content", data |-> block])

\* Connection::sendContent of an error's message
SendText(c, text) ==
    Call(Queue(c, Len(text)), [op |-> "text", text |-> text])

\* Connection::close: the socket stops taking writes; what is queued is
\* still flushed.
Close(c) == [Call(c, [op |-> "close"]) EXCEPT !.open = FALSE]

\* Connection::bytesToWrite
BytesToWrite(c) == c.queued

(***************************************************************************)
(* StreamFile and its read cursor, ReadRequestPrivate.                     *)
(***************************************************************************)
TorrentName == <<"t">>
FileName == <<"f">>

\* TorrentInfo::name of a torrent, and TorrentInfo::fileName of its files:
\* torrent "t" is named t and its file 0 f.
TorrentNameOf(torrent) == <<torrent>>
FileNameOf(fileIndex) == IF fileIndex = 0 THEN FileName ELSE FileName \o Number(fileIndex)

\* StreamFile::StreamFile
StreamFile(fileIndex, torrent, i) ==
    [name |-> TorrentNameOf(torrent) \o <<"/">> \o FileNameOf(fileIndex),
     mimeType |-> <<"mime of ">> \o FileNameOf(fileIndex),
     torrent |-> torrent,
     fileIndex |-> fileIndex,
     size |-> i.fileSize,
     lastPiece |-> LastFilePiece(i),
     pieceLength |-> i.pieceLength]

NoPieceRange == [start |-> -1, end |-> -1]

\* state: "none" before StreamFile::read, "live", then "done" (destroyed with
\* nothing left) or "cancelled" (destroyed with bytes left).  fileDestroyed:
\* the StreamFile that created the cursor is deleted, and with it the
\* connections made with it as context: received to doRead, and the
\* cancelled handler.  first, size, steps, fed, held, errored and
\* removedLive are history: the range asked for, the current-piece requests
\* issued, the blocks emitted by bytesRead, the pieces the engine held a
\* deadline for when the cursor was destroyed, whether error was emitted,
\* and whether the cursor lived, with bytes left, when its file was deleted,
\* and the Q_ASSERTs of the cursor whose condition was false when reached.
NoCursor ==
    [state |-> "none", currentPosition |-> 0, leftSize |-> 0,
     isBlockPending |-> FALSE, advanceRange |-> NoPieceRange,
     fileDestroyed |-> FALSE,
     first |-> 0, size |-> 0, steps |-> 0, fed |-> <<>>, held |-> {},
     errored |-> FALSE, removedLive |-> FALSE, failed |-> {}]

\* ReadRequestPrivate::ReadRequestPrivate
ReadRequestPrivate(initialPosition, maxSize) ==
    [NoCursor EXCEPT !.state = "live",
                     !.currentPosition = initialPosition,
                     !.leftSize = maxSize,
                     !.first = initialPosition,
                     !.size = maxSize]

\* Mutant of Feed: the bytes left are not counted down
FeedKeepsLeft(r, data) ==
    [r EXCEPT !.currentPosition = @ + BlockSize(data),
              !.isBlockPending = TRUE,
              !.fed = Append(@, data)]

\* The Q_ASSERTs at the head of ReadRequestPrivate::feed that do not hold
FeedAsserts(r, data) ==
    {a \in {"data.size() <= m_leftSize"} : ~(BlockSize(data) <= r.leftSize)}
    \cup {a \in {"leftSize() != 0"} : ~(r.leftSize # 0)}

\* ReadRequestPrivate::feed, with the bytesRead it emits recorded in fed
Feed(r, data) ==
    [r EXCEPT !.currentPosition = @ + BlockSize(data),
              !.leftSize = @ - BlockSize(data),
              !.isBlockPending = TRUE,
              !.fed = Append(@, data),
              !.failed = @ \cup FeedAsserts(r, data)]

\* The cancelled handler connected in StreamFile::read
Cancelled(r, t) ==
    IF r.advanceRange.start = -1 \/ r.advanceRange.end = -1 THEN t
    ELSE ResetPieceDeadlines(t, r.advanceRange.start, r.advanceRange.end)

\* Mutant of DestroyRequest: cancelled is emitted whatever is left
DestroyRequestAlwaysCancels(r, t) ==
    [rr |-> [r EXCEPT !.state = IF r.leftSize # 0 THEN "cancelled" ELSE "done",
                      !.held = IF r.leftSize # 0
                               THEN {p \in DOMAIN t.deadline : t.deadline[p] # 0}
                               ELSE @],
     tor |-> IF r.fileDestroyed THEN t ELSE Cancelled(r, t),
     reqs |-> {}]

\* Mutant of DestroyRequest: the cursor outlives its destruction
DestroyRequestStaysLive(r, t) ==
    IF r.leftSize # 0
    THEN [rr |-> [r EXCEPT !.held = {p \in DOMAIN t.deadline : t.deadline[p] # 0}],
          tor |-> IF r.fileDestroyed THEN t ELSE Cancelled(r, t),
          reqs |-> {}]
    ELSE [rr |-> [r EXCEPT !.state = "done"], tor |-> t, reqs |-> {}]

\* ReadRequestPrivate::~ReadRequestPrivate: cancelled is emitted when bytes
\* are left, and reaches the cancelled handler unless the StreamFile, its
\* context, is deleted.  The PieceRequests, children of the cursor, go with
\* it.
DestroyRequest(r, t) ==
    IF r.leftSize # 0
    THEN [rr |-> [r EXCEPT !.state = "cancelled",
                           !.held = {p \in DOMAIN t.deadline : t.deadline[p] # 0}],
          tor |-> IF r.fileDestroyed THEN t ELSE Cancelled(r, t),
          reqs |-> {}]
    ELSE [rr |-> [r EXCEPT !.state = "done"], tor |-> t, reqs |-> {}]

\* Mutant of AdvanceRange: the window starts at the current piece
AdvanceRangeFromCurrent(f, index) ==
    [start |-> index,
     end |-> Min(index + CeilDiv(BUFFER_SIZE, f.pieceLength), f.lastPiece)]

\* Mutant of AdvanceRange: the window's end not cut at the file's last piece
AdvanceRangeUnclamped(f, index) ==
    [start |-> index + 1,
     end |-> index + CeilDiv(BUFFER_SIZE, f.pieceLength)]

\* The lookahead window of StreamFile::doRead for the current piece index
AdvanceRange(f, index) ==
    [start |-> index + 1,
     end |-> Min(index + CeilDiv(BUFFER_SIZE, f.pieceLength), f.lastPiece)]

\* The loop of StreamFile::doRead over the window: a deadline for every
\* piece of it that is not available, growing with the distance.
PrioritizeAdvance(t, range, deadlineTime) ==
    [t EXCEPT
        !.deadline = [p \in DOMAIN @ |->
            IF p >= range.start /\ p <= range.end /\ ~HavePiece(t, p)
            THEN deadlineTime * ((p - range.start + 1) + 1)
            ELSE @[p]],
        !.issued = @ \cup {p \in range.start..range.end : ~HavePiece(t, p)}]

\* StreamFile::doRead with the deadline of the current piece given
DoReadWith(deadlineTime, r, t, reqs, f, i) ==
    IF r.leftSize = 0 THEN DestroyRequest(r, t)
    ELSE
        LET pieceInfo == MapFile(i, r.currentPosition, Min(r.leftSize, f.pieceLength))
            available == HavePiece(t, pieceInfo.index)
            t1 == IF available THEN t
                  ELSE SetPieceDeadline(t, pieceInfo.index, deadlineTime)
            pieceRequest ==
                [id |-> r.steps + 1,
                 kind |-> IF available THEN "readPiece" ELSE "setPieceDeadline",
                 index |-> pieceInfo.index,
                 start |-> pieceInfo.start,
                 length |-> pieceInfo.length]
            ahead == pieceInfo.index < f.lastPiece
            advanceRange == AdvanceRange(f, pieceInfo.index)
        IN  [rr |-> [r EXCEPT !.steps = @ + 1,
                              !.advanceRange = IF ahead THEN advanceRange ELSE @],
             tor |-> IF ahead THEN PrioritizeAdvance(t1, advanceRange, deadlineTime)
                     ELSE t1,
             reqs |-> reqs \cup {pieceRequest}]

\* StreamFile::doRead (streamfile.cpp)
DoRead(r, t, reqs, f, i) == DoReadWith(DEADLINE_TIME, r, t, reqs, f, i)

\* StreamFile::read
Read(position, size, t, reqs, f, i) ==
    DoRead(ReadRequestPrivate(position, size), t, reqs, f, i)

\* The head of ReadRequest::notifyBlockReceived: Q_ASSERT(m_isBlockPending),
\* then the flag is cleared
ClearBlockPending(r) ==
    [r EXCEPT !.isBlockPending = FALSE,
              !.failed = @ \cup {a \in {"m_isBlockPending"} : ~r.isBlockPending}]

\* Mutant of NotifyBlockReceived: doRead runs whether or not the StreamFile
\* lives
NotifyBlockReceivedFileGone(r, t, reqs, f, i) ==
    DoRead(ClearBlockPending(r), t, reqs, f, i)

\* ReadRequest::notifyBlockReceived: the received signal runs doRead, unless
\* the StreamFile, the context of that connection, is deleted
NotifyBlockReceived(r, t, reqs, f, i) ==
    IF r.fileDestroyed
    THEN [rr |-> ClearBlockPending(r), tor |-> t, reqs |-> reqs]
    ELSE DoRead(ClearBlockPending(r), t, reqs, f, i)

(***************************************************************************)
(* StreamingManager: the registry and the request handlers.  A handler's   *)
(* outcome is the state it leaves (connection, cursor, torrent, piece      *)
(* requests) and the HTTPError it throws, 0 when it returns.               *)
(***************************************************************************)
NotFoundHTTPError == 404
MethodNotAllowedHTTPError == 405
InvalidRangeHTTPError == 416

\* HTTPError::message: only the invalid-range error carries a text
ErrorMessage(code) ==
    IF code = InvalidRangeHTTPError
    THEN <<"i", "n", "v", "a", "l", "i", "d", " ", "r", "a", "n", "g", "e">>
    ELSE <<>>

\* Mutant of FindFileByIndex: the file index is not compared
FindFileByIndexAnyIndex(fs, fileIndex, torrent) ==
    SelectSeq(fs, LAMBDA f : f.torrent = torrent)

\* StreamingManager::findFile(fileIndex, torrent): the registered files of
\* that torrent and index, in registry order
FindFileByIndex(fs, fileIndex, torrent) ==
    SelectSeq(fs, LAMBDA f : f.fileIndex = fileIndex /\ f.torrent = torrent)

\* StreamingManager::playFile: the registry with a StreamFile for the pair,
\* a new one at its end unless one is registered
playFile(fs, fileIndex, torrent, i) ==
    IF FindFileByIndex(fs, fileIndex, torrent) # <<>> THEN fs
    ELSE Append(fs, StreamFile(fileIndex, torrent, i))

\* Mutant of removeServingTorrent: a removal empties the registry
removeServingTorrentAll(fs, torrent) ==
    IF \E k \in 1..Len(fs) : fs[k].torrent = torrent THEN <<>> ELSE fs

\* StreamingManager::removeServingTorrent: the registry without the files of
\* the torrent
removeServingTorrent(fs, torrent) == SelectSeq(fs, LAMBDA f : f.torrent # torrent)

\* StreamingManager::findFile(path): the registered files of that name, in
\* registry order; the first is the one found
FindFileByPath(fs, path) ==
    LET pathWithoutSep ==
            IF path # <<>> /\ Head(path) = "/" THEN Tail(path) ELSE path
    IN  SelectSeq(fs, LAMBDA f : f.name = pathWithoutSep)

HeadHeaders(file) ==
    [acceptRanges |-> BytesUnit,
     connection |-> <<"c", "l", "o", "s", "e">>,
     contentLength |-> Number(file.size),
     contentType |-> file.mimeType]

GetHeaders(file, range) ==
    [acceptRanges |-> BytesUnit,
     contentLength |-> Number(RangeSize(range)),
     contentType |-> file.mimeType,
     contentRange |-> BytesUnit \o <<" ">> \o Number(range.firstBytePos) \o <<"-">>
                        \o Number(range.lastBytePos) \o <<"/">> \o Number(file.size)]

Outcome(c, r, t, reqs, err) ==
    [conn |-> c, rr |-> r, tor |-> t, reqs |-> reqs, err |-> err]

\* Mutant of DoHead: the connection is left open
DoHeadNoClose(request, c, r, t, reqs, fs) ==
    LET found == FindFileByPath(fs, request.path)
    IN  IF found = <<>> THEN Outcome(c, r, t, reqs, NotFoundHTTPError)
        ELSE Outcome(SendHeaders(SendStatus(c, 200), HeadHeaders(Head(found))),
                     r, t, reqs, 0)

\* StreamingManager::doHead
DoHead(request, c, r, t, reqs, fs) ==
    LET found == FindFileByPath(fs, request.path)
    IN  IF found = <<>> THEN Outcome(c, r, t, reqs, NotFoundHTTPError)
        ELSE Outcome(Close(SendHeaders(SendStatus(c, 200), HeadHeaders(Head(found)))),
                     r, t, reqs, 0)

\* StreamingManager::doGet after its test of the Range header
DoGetRange(request, c, r, t, reqs, fs, i) ==
    LET found == FindFileByPath(fs, request.path)
        file == Head(found)
        range == fromHttpRangeField(request.range, file.size)
        started == Read(range.firstBytePos, RangeSize(range), t, reqs, file, i)
    IN  IF found = <<>> THEN Outcome(c, r, t, reqs, NotFoundHTTPError)
        ELSE IF ~range.ok THEN Outcome(c, r, t, reqs, InvalidRangeHTTPError)
        ELSE Outcome(SendHeaders(SendStatus(c, 206), GetHeaders(file, range)),
                     started.rr, started.tor, started.reqs, 0)

\* StreamingManager::doGet: without a Range header doHead runs first, and
\* what it throws leaves doGet; doGet then goes on.
DoGet(request, c, r, t, reqs, fs, i) ==
    LET head == IF request.range = <<>> THEN DoHead(request, c, r, t, reqs, fs)
                ELSE Outcome(c, r, t, reqs, 0)
    IN  IF head.err # 0 THEN head
        ELSE DoGetRange(request, head.conn, head.rr, head.tor, head.reqs, fs, i)

\* The catch block of StreamingManager::handleRequest
SendError(c, code) ==
    LET c1 == SendStatus(c, code)
        message == ErrorMessage(code)
    IN  Close(IF message # <<>>
              THEN SendText(SendHeaders(c1, [contentType |-> <<"text/plain">>,
                                             contentLength |-> Number(Len(message))]),
                            message)
              ELSE c1)

\* Mutant of HandleRequestOutcome: every method but GET is handled as a HEAD
HandleRequestOutcomeNoMethodTest(request, c, r, t, reqs, fs, i) ==
    LET out == IF request.method = "GET" THEN DoGet(request, c, r, t, reqs, fs, i)
               ELSE DoHead(request, c, r, t, reqs, fs)
    IN  IF out.err # 0 THEN [out EXCEPT !.conn = SendError(out.conn, out.err)]
        ELSE out

\* StreamingManager::handleRequest
HandleRequestOutcome(request, c, r, t, reqs, fs, i) ==
    LET out == IF request.method = "HEAD" THEN DoHead(request, c, r, t, reqs, fs)
               ELSE IF request.method = "GET" THEN DoGet(request, c, r, t, reqs, fs, i)
               ELSE Outcome(c, r, t, reqs, MethodNotAllowedHTTPError)
    IN  IF out.err # 0 THEN [out EXCEPT !.conn = SendError(out.conn, out.err)]
        ELSE out


(***************************************************************************)
(* The listener of the streaming server: StreamingManager::startListening  *)
(* on m_server, and StreamingServer::listen on its QTcpServer, which are   *)
(* the same code.  binds and closes count the listen and close calls made  *)
(* on the QTcpServer.                                                      *)
(***************************************************************************)
\* The ports the system gives a listener that asks for port 0
EphemeralPorts == {49152, 49153}

\* What QTcpServer::listen(ip, 0) can do: bind one of the ports, or fail (0)
ListenOutcomes == EphemeralPorts \cup {0}

NotListening == [listening |-> FALSE, port |-> 0, binds |-> 0, closes |-> 0]

\* QTcpServer::close
CloseServer(srv) == [srv EXCEPT !.listening = FALSE, !.port = 0, !.closes = @ + 1]

\* QTcpServer::listen(ip, 0): serverPort() is then the port bound
ListenServer(srv, outcome) ==
    [srv EXCEPT !.listening = (outcome # 0), !.port = outcome, !.binds = @ + 1]

\* StreamingManager::startListening / StreamingServer::listen
startListening(srv, outcome) ==
    LET port == 0
    IN  IF srv.listening /\ srv.port = port THEN srv
        ELSE ListenServer(IF srv.listening THEN CloseServer(srv) ELSE srv, outcome)

\* The manager of Spec: constructed, listening
ListeningServer == ListenServer(NotListening, 49152)

NoCall == [op |-> "none", fileIndex |-> -1, torrent |-> ""]

(***************************************************************************)
(* Spec: one torrent, one connection carrying one request, and the cursor  *)
(* a GET creates, under every interleaving of downloads, piece             *)
(* completions and failures, write-queue drains, a client disconnect and   *)
(* the server dropping the closed connection.                              *)
(***************************************************************************)
MaxFilePieces == 3

PieceLengths == {24 * MiB, 32 * MiB}
FileOffsets == {0, 5}

\* A torrent whose streamed file is n pieces long less 5 bytes: the file
\* ends 5 bytes before a piece boundary when it starts at one, and at a
\* piece boundary when it starts 5 bytes after one.  Another file, one
\* piece length long, follows it in the torrent.
Geometry(pl, fo, n) ==
    [pieceLength |-> pl, fileOffset |-> fo, fileSize |-> n * pl - 5,
     totalSize |-> fo + (n * pl - 5) + pl]

\* Files of one and two pieces for every piece length and offset, and
\* longer files, up to MaxFilePieces pieces, for the piece length the
\* buffer holds one of.
Geometries ==
    {Geometry(pl, fo, n) : pl \in PieceLengths, fo \in FileOffsets, n \in 1..2}
        \cup {Geometry(BUFFER_SIZE, 5, n) : n \in 1..MaxFilePieces}

\* File positions a Range header names: the start, the last byte of the
\* file's first piece, the last byte of the file and one past it.
RangePoints(i) ==
    {0, Min(i.pieceLength - i.fileOffset, i.fileSize) - 1, i.fileSize - 1, i.fileSize}

\* The header value bytes=<a>-<b>, and bytes=<a>- with no last position
RangeText(a, b) == BytesUnit \o <<"=">> \o Number(a) \o <<"-">> \o Number(b)
OpenRangeText(a) == BytesUnit \o <<"=">> \o Number(a) \o <<"-">>

RangeValues(i) ==
    {RangeText(a, b) : a \in RangePoints(i), b \in RangePoints(i)}
    \cup {OpenRangeText(a) : a \in RangePoints(i)}
    \cup {<<"i", "t", "e", "m", "s", "=", "0", "-", "1">>}

RegisteredPath == <<"/">> \o TorrentName \o <<"/">> \o FileName

\* The registered path with and without its leading '/', the path of another
\* file, and malformed paths: a doubled '/' and the empty path.
Paths ==
    {RegisteredPath, Tail(RegisteredPath), <<"/">> \o TorrentName \o <<"/", "g">>,
     <<"/">> \o RegisteredPath, <<>>}

Requests(i) ==
    [method : {"GET"}, path : {RegisteredPath}, range : RangeValues(i)]
    \cup [method : {"GET"}, path : Paths,
          range : {OpenRangeText(0)}]
    \cup [method : {"HEAD", "GET", "POST"}, path : Paths, range : {<<>>}]

NoRequest == [method |-> "", path |-> <<>>, range |-> <<>>]

\* What a bytesWritten leaves queued: nothing, or an amount just below or
\* at the piece length.
DrainLevels(i) == {0, i.pieceLength - 1, i.pieceLength}

Init ==
    /\ info \in Geometries
    /\ files = <<>>
    /\ tor = [have |-> {},
              deadline |-> [p \in PieceIndices(info) |-> 0],
              resets |-> [p \in PieceIndices(info) |-> 0],
              issued |-> {}]
    /\ conn = NewConnection
    /\ rr = NoCursor
    /\ pieceReqs = {}
    /\ http = [handled |-> FALSE, registered |-> FALSE, request |-> NoRequest]
    /\ rq = [unit |-> <<>>, eq |-> FALSE, first |-> <<>>, dash |-> FALSE,
             last |-> <<>>, fileSize |-> 1]
    /\ rres = NoResult
    /\ server = ListeningServer
    /\ call = NoCall
    /\ sconn = <<>>
    /\ responses = <<>>
    /\ pending = <<>>
    /\ loader = <<>>
    /\ cache = <<>>
    /\ sched = <<>>

\* StreamingManager::playFile: the file is registered unless it is already
PlayFile ==
    /\ FindFileByIndex(files, 0, "t") = <<>>
    /\ files' = playFile(files, 0, "t", info)
    /\ UNCHANGED <<info, tor, conn, rr, pieceReqs, http, rq, rres, server, call, sconn, sched, responses, pending, loader, cache>>

\* The engine finishes downloading a piece: it is available, and its
\* deadline is over.
PieceDownloaded(p) ==
    /\ p < NumPieces(info)
    /\ ~HavePiece(tor, p)
    /\ tor' = [tor EXCEPT !.have = @ \cup {p}, !.deadline[p] = 0]
    /\ UNCHANGED <<info, files, conn, rr, pieceReqs, http, rq, rres, server, call, sconn, sched, responses, pending, loader, cache>>

\* The server hands the connection's request to StreamingManager::handleRequest
HandleRequest(request) ==
    /\ ~http.handled
    /\ conn.open
    /\ LET out == HandleRequestOutcome(request, conn, rr, tor, pieceReqs, files, info)
       IN  /\ conn' = out.conn
           /\ rr' = out.rr
           /\ tor' = out.tor
           /\ pieceReqs' = out.reqs
    /\ http' = [handled |-> TRUE,
                registered |-> FindFileByPath(files, request.path) # <<>>,
                request |-> request]
    /\ UNCHANGED <<info, files, rq, rres, server, call, sconn, sched, responses, pending, loader, cache>>

\* The bytesRead handler connected in StreamingManager::doGet
BytesRead(c, data, isLastBlock) ==
    LET c1 == SendContent(c, data)
    IN  IF isLastBlock THEN Close(c1) ELSE c1

\* PieceRequest::complete for a request in flight: the handler connected in
\* StreamFile::doRead feeds the cursor the request's part of the piece.
PieceComplete(q) ==
    /\ rr.state = "live"
    /\ q \in pieceReqs
    /\ q.index < NumPieces(info)
    /\ HavePiece(tor, q.index)
    /\ LET data == BlockMid(PieceData(info, q.index), q.start, q.length)
           fedRequest == Feed(rr, data)
       IN  /\ rr' = fedRequest
           /\ conn' = BytesRead(conn, data, fedRequest.leftSize = 0)
    /\ pieceReqs' = pieceReqs \ {q}
    /\ UNCHANGED <<info, files, tor, http, rq, rres, server, call, sconn, sched, responses, pending, loader, cache>>

\* Mutant of OnError: the failed step is issued again
OnErrorRetry(c, r, t, reqs, f, i) ==
    LET again == DoRead([r EXCEPT !.errored = TRUE], t, {}, f, i)
    IN  [conn |-> c, rr |-> again.rr, tor |-> again.tor, reqs |-> again.reqs]

\* The error handler connected in StreamingManager::doGet: the connection is
\* closed and the cursor deleted
OnError(c, r, t, reqs, f, i) ==
    LET gone == DestroyRequest([r EXCEPT !.errored = TRUE], t)
    IN  [conn |-> Close(c), rr |-> gone.rr, tor |-> gone.tor, reqs |-> gone.reqs]

\* PieceRequest::error for a request in flight: the handler connected in
\* StreamFile::doRead has the cursor emit error (notifyError).
PieceError(q) ==
    /\ rr.state = "live"
    /\ q \in pieceReqs
    /\ LET out == OnError(conn, rr, tor, pieceReqs, StreamFile(0, "t", info), info)
       IN  /\ conn' = out.conn
           /\ rr' = out.rr
           /\ tor' = out.tor
           /\ pieceReqs' = out.reqs
    /\ UNCHANGED <<info, files, http, rq, rres, server, call, sconn, sched, responses, pending, loader, cache>>

\* Mutant of OnBytesWritten: no test of the write queue
OnBytesWrittenNoCeiling(c, r, t, reqs, f, i) ==
    IF r.isBlockPending
    THEN NotifyBlockReceived(r, t, reqs, f, i)
    ELSE [rr |-> r, tor |-> t, reqs |-> reqs]

\* Mutant of OnBytesWritten: no test of outstandingRead
OnBytesWrittenNoPendingTest(c, r, t, reqs, f, i) ==
    IF BytesToWrite(c) < f.pieceLength
    THEN NotifyBlockReceived(r, t, reqs, f, i)
    ELSE [rr |-> r, tor |-> t, reqs |-> reqs]

\* The bytesWritten handler connected in StreamingManager::doGet
OnBytesWritten(c, r, t, reqs, f, i) ==
    IF BytesToWrite(c) < f.pieceLength /\ r.isBlockPending
    THEN NotifyBlockReceived(r, t, reqs, f, i)
    ELSE [rr |-> r, tor |-> t, reqs |-> reqs]

\* The socket writes queued bytes, leaving left of them, and the
\* connection emits bytesWritten.
BytesWritten(left) ==
    /\ ~conn.destroyed
    /\ left < conn.queued
    /\ conn' = [conn EXCEPT !.queued = left]
    /\ IF rr.state = "live"
       THEN LET out == OnBytesWritten(conn', rr, tor, pieceReqs,
                                      StreamFile(0, "t", info), info)
            IN  /\ rr' = out.rr
                /\ tor' = out.tor
                /\ pieceReqs' = out.reqs
       ELSE UNCHANGED <<rr, tor, pieceReqs, sched, responses, pending, loader, cache>>
    /\ UNCHANGED <<info, files, http, rq, rres, server, call, sconn, sched, responses, pending, loader, cache>>

\* The torrents a removal can name: the streamed file's and another
Torrents == {"t", "u"}

\* Mutant of OnFileDestroyed: the connection is left as it is
OnFileDestroyedNoClose(c) == c

\* The handler of the file's destroyed signal connected in
\* StreamingManager::doGet
OnFileDestroyed(c) == Close(c)

\* Session::torrentAboutToBeRemoved, connected to removeServingTorrent: the
\* torrent's StreamFiles are deleted and leave the registry.  destroyed of a
\* deleted file reaches the handler connected in StreamingManager::doGet for
\* a GET that got its 206, while the connection lives: the connection is
\* closed.  The cursor, if not yet destroyed, is a child of the connection
\* and lives on.
RemoveServingTorrent(torrent) ==
    /\ files' = removeServingTorrent(files, torrent)
    /\ IF files' # files /\ rr.state # "none" /\ ~rr.fileDestroyed /\ ~conn.destroyed
       THEN /\ conn' = OnFileDestroyed(conn)
            /\ rr' = [rr EXCEPT !.fileDestroyed = TRUE,
                                !.removedLive = (rr.state = "live" /\ rr.leftSize > 0)]
       ELSE UNCHANGED <<conn, rr, sched, responses, pending, loader, cache>>
    /\ UNCHANGED <<info, tor, pieceReqs, http, rq, rres, server, call, sconn, sched, responses, pending, loader, cache>>

\* The client goes away: the socket is closed and its queue dropped.
ClientDisconnect ==
    /\ conn.open
    /\ conn' = [conn EXCEPT !.open = FALSE, !.disconnected = TRUE, !.queued = 0]
    /\ UNCHANGED <<info, files, tor, rr, pieceReqs, http, rq, rres, server, call, sconn, sched, responses, pending, loader, cache>>

\* The server deletes the closed connection, and with it its child, the
\* cursor.
ConnectionDestroyed ==
    /\ ~conn.open
    /\ ~conn.destroyed
    /\ conn' = [conn EXCEPT !.destroyed = TRUE, !.queued = 0]
    /\ IF rr.state = "live"
       THEN LET gone == DestroyRequest(rr, tor)
            IN  /\ rr' = gone.rr
                /\ tor' = gone.tor
                /\ pieceReqs' = gone.reqs
       ELSE UNCHANGED <<rr, tor, pieceReqs, sched, responses, pending, loader, cache>>
    /\ UNCHANGED <<info, files, http, rq, rres, server, call, sconn, sched, responses, pending, loader, cache>>

Next ==
    \/ PlayFile
    \/ \E p \in PieceIndices(info) : PieceDownloaded(p)
    \/ \E request \in Requests(info) : HandleRequest(request)
    \/ \E q \in pieceReqs : PieceComplete(q)
    \/ \E q \in pieceReqs : PieceError(q)
    \/ \E left \in DrainLevels(info) : BytesWritten(left)
    \/ \E torrent \in Torrents : RemoveServingTorrent(torrent)
    \/ ClientDisconnect
    \/ ConnectionDestroyed

Spec == Init /\ [][Next]_vars

(***************************************************************************)
(* SpecRange: the parser applied to header values put together from a      *)
(* unit, an optional '=', a first position, an optional '-' and a last     *)
(* position, each well formed or not.                                      *)
(***************************************************************************)
MaxFileSize == 4
MaxPos == 5

Units == {BytesUnit, <<"b", "y", "t", "e">>, <<"i", "t", "e", "m", "s">>, <<>>}

\* The texts a position is written as: every number up to MaxPos, nothing,
\* and texts that are no unsigned integer.
PosTexts ==
    {Number(n) : n \in 0..MaxPos}
        \cup {<<>>, <<"x">>, <<"1", "x">>, <<"-", "1">>, <<"1", "0">>}

HeaderValue(p) ==
    p.unit \o (IF p.eq THEN <<"=">> ELSE <<>>) \o p.first
        \o (IF p.dash THEN <<"-">> ELSE <<>>) \o p.last

RangeInputs ==
    [unit : Units, eq : BOOLEAN, first : PosTexts, dash : BOOLEAN,
     last : PosTexts, fileSize : 1..MaxFileSize]

InitRange ==
    /\ rq \in RangeInputs
    /\ rres = NoResult
    /\ info = [pieceLength |-> 1, fileOffset |-> 0, fileSize |-> rq.fileSize,
               totalSize |-> rq.fileSize]
    /\ files = <<>>
    /\ tor = [have |-> {}, deadline |-> <<>>, resets |-> <<>>, issued |-> {}]
    /\ conn = [NewConnection EXCEPT !.open = FALSE, !.destroyed = TRUE]
    /\ rr = NoCursor
    /\ pieceReqs = {}
    /\ http = [handled |-> FALSE, registered |-> FALSE, request |-> NoRequest]
    /\ server = ListeningServer
    /\ call = NoCall
    /\ sconn = <<>>
    /\ responses = <<>>
    /\ pending = <<>>
    /\ loader = <<>>
    /\ cache = <<>>
    /\ sched = <<>>

ParseRange ==
    /\ rres = NoResult
    /\ rres' = fromHttpRangeField(HeaderValue(rq), rq.fileSize)
    /\ UNCHANGED <<rq, info, files, tor, conn, rr, pieceReqs, http, server, call, sconn, sched, responses, pending, loader, cache>>

NextRange == ParseRange

SpecRange == InitRange /\ [][NextRange]_vars


(***************************************************************************)
(* SpecManager: the calls made on the StreamingManager - startListening,   *)
(* playFile and removeServingTorrent - for the files 0 and 1 of two        *)
(* torrents, in every order, with no request being served.                 *)
(***************************************************************************)
MaxBinds == 3

FileIndexes == {0, 1}

InitManager ==
    /\ files = <<>>
    /\ server = NotListening
    /\ call = NoCall
    /\ info = Geometry(BUFFER_SIZE, 0, 1)
    /\ tor = [have |-> {}, deadline |-> <<>>, resets |-> <<>>, issued |-> {}]
    /\ conn = [NewConnection EXCEPT !.open = FALSE, !.destroyed = TRUE]
    /\ rr = NoCursor
    /\ pieceReqs = {}
    /\ http = [handled |-> FALSE, registered |-> FALSE, request |-> NoRequest]
    /\ rq = [unit |-> <<>>, eq |-> FALSE, first |-> <<>>, dash |-> FALSE,
             last |-> <<>>, fileSize |-> 1]
    /\ rres = NoResult
    /\ sconn = <<>>
    /\ responses = <<>>
    /\ pending = <<>>
    /\ loader = <<>>
    /\ cache = <<>>
    /\ sched = <<>>

\* StreamingManager::startListening: by the constructor, and again
StartListening(outcome) ==
    /\ server.binds < MaxBinds
    /\ server' = startListening(server, outcome)
    /\ call' = [NoCall EXCEPT !.op = "startListening"]
    /\ UNCHANGED <<info, files, tor, conn, rr, pieceReqs, http, rq, rres, sconn, sched, responses, pending, loader, cache>>

\* StreamingManager::playFile(fileIndex, torrent), the server listening
ManagerPlayFile(fileIndex, torrent) ==
    /\ server.listening
    /\ files' = playFile(files, fileIndex, torrent, info)
    /\ call' = [op |-> "playFile", fileIndex |-> fileIndex, torrent |-> torrent]
    /\ UNCHANGED <<info, tor, conn, rr, pieceReqs, http, rq, rres, server, sconn, sched, responses, pending, loader, cache>>

\* StreamingManager::removeServingTorrent(torrent), no request being served
ManagerRemoveServingTorrent(torrent) ==
    /\ files' = removeServingTorrent(files, torrent)
    /\ call' = [NoCall EXCEPT !.op = "removeServingTorrent", !.torrent = torrent]
    /\ UNCHANGED <<info, tor, conn, rr, pieceReqs, http, rq, rres, server, sconn, sched, responses, pending, loader, cache>>

NextManager ==
    \/ \E outcome \in ListenOutcomes : StartListening(outcome)
    \/ \E fileIndex \in FileIndexes, torrent \in Torrents :
           ManagerPlayFile(fileIndex, torrent)
    \/ \E torrent \in Torrents : ManagerRemoveServingTorrent(torrent)

SpecManager == InitManager /\ [][NextManager]_vars

(***************************************************************************)
(* SpecConnection: one StreamingConnection of the StreamingServer, from    *)
(* its construction to its removal by the server's sweep.  The bytes it    *)
(* receives are tokens: "r" a byte of a request that is not finished, "E"  *)
(* the byte that ends a well-formed request, "X" a byte that makes the     *)
(* request malformed.  Requests are numbered in the order they are parsed; *)
(* what the server's user does with a request it was handed is the         *)
(* actions Send and ResponseCompleted.                                     *)
(***************************************************************************)
MaxRequests == 2
MaxIdle == 8000

KEEP_ALIVE_DURATION == 7 * 1000
SweepInterval == 3 * 1000
Delays == {1000, 2000}

Tokens == {"r", "E", "X"}
Chunks == {<<a>> : a \in Tokens} \cup {<<a, b>> : a, b \in Tokens}

\* Http::RequestParser::MAX_CONTENT_SIZE, in tokens
MAX_CONTENT_SIZE == 2

\* Http::RequestParser::parse: the status of the first request of the
\* buffer, and the size of its frame when it is complete
Parse(buf) ==
    LET ends == {k \in 1..Len(buf) : buf[k] # "r"}
        first == CHOOSE k \in ends : \A j \in ends : k <= j
    IN  IF ends = {} THEN [status |-> "Incomplete", frameSize |-> 0]
        ELSE IF buf[first] = "X" THEN [status |-> "BadRequest", frameSize |-> 0]
        ELSE [status |-> "OK", frameSize |-> first]

\* The requests that end in a buffer
CompleteRequests(buf) == Cardinality({k \in 1..Len(buf) : buf[k] = "E"})

\* A StreamingConnection as its constructor leaves it, the socket having
\* no bytes yet
NewStreamingConnection ==
    [socketOpen |-> TRUE,       \* m_socket->isOpen()
     disconnecting |-> FALSE,   \* the socket's disconnected signal is due
     queued |-> 0,              \* m_socket->bytesToWrite()
     written |-> <<>>,          \* the status codes written to the socket
     receivedData |-> <<>>,     \* m_receivedData
     request |-> 0,             \* m_request: a request's number, or 0
     requests |-> <<>>,         \* the StreamRequests created, by number
     idle |-> 0,                \* m_idleTimer.elapsed()
     sinceSweep |-> 0,          \* the time since the sweep timer fired
     removed |-> FALSE,         \* the sweep removed the connection
     aborted |-> FALSE,         \* an assert stopped the process
     op |-> "new",              \* the last operation
     chunk |-> <<>>]            \* the bytes of the last receipt

\* QIODevice::write on the socket: a closed socket takes nothing
WriteSocket(c, code) ==
    IF c.socketOpen THEN [c EXCEPT !.written = Append(@, code), !.queued = 1]
    ELSE c

\* QTcpSocket::close
CloseSocket(c) ==
    IF c.socketOpen THEN [c EXCEPT !.socketOpen = FALSE, !.disconnecting = TRUE]
    ELSE c

\* parseRequest, case Incomplete
OnIncomplete(c) ==
    LET bufferLimit == (MAX_CONTENT_SIZE * 11) \div 10
    IN  IF Len(c.receivedData) > bufferLimit THEN CloseSocket(WriteSocket(c, 413))
        ELSE c

\* Mutant of OnBadRequest: the socket is left open
OnBadRequestNoClose(c) == WriteSocket(c, 400)

\* parseRequest, case BadRequest
OnBadRequest(c) == CloseSocket(WriteSocket(c, 400))

\* parseRequest, case OK: the request is created, published and made the
\* connection's current request
OnRequest(c, frameSize) ==
    [c EXCEPT !.requests = Append(@, [state |-> "pending", closeAfter |-> FALSE]),
              !.request = Len(c.requests) + 1,
              !.receivedData = SubSeq(@, frameSize + 1, Len(@))]

\* The loop of parseRequest
RECURSIVE ParseLoop(_)
ParseLoop(c) ==
    IF c.receivedData = <<>> THEN c
    ELSE LET result == Parse(c.receivedData)
         IN  CASE result.status = "Incomplete" -> OnIncomplete(c)
               [] result.status = "BadRequest" -> OnBadRequest(c)
               [] OTHER -> ParseLoop(OnRequest(c, result.frameSize))

\* StreamingConnection::parseRequest on the bytes the socket has
parseRequest(c, chunk) ==
    ParseLoop([c EXCEPT !.idle = 0, !.receivedData = @ \o chunk])

\* StreamingConnection::freeRequest
freeRequest(c) ==
    IF c.request = 0 THEN c
    ELSE LET closed == IF c.requests[c.request].closeAfter THEN CloseSocket(c) ELSE c
         IN  [closed EXCEPT !.requests[c.request].state = "deleted", !.request = 0]

\* StreamingConnection::hasExpired
hasExpired(c, timeout) ==
    \/ ~c.socketOpen
    \/ (c.idle > timeout /\ c.queued = 0 /\ c.request = 0)

\* The requests handed out and not answered in full
InFlight(c) == {id \in 1..Len(c.requests) : c.requests[id].state \in {"pending", "streaming"}}

ConnectionRuns == ~sconn.removed /\ ~sconn.aborted

InitConnection ==
    /\ sconn = NewStreamingConnection
    /\ responses = <<>>
    /\ pending = <<>>
    /\ loader = <<>>
    /\ cache = <<>>
    /\ sched = <<>>
    /\ files = <<>>
    /\ server = ListeningServer
    /\ call = NoCall
    /\ info = Geometry(BUFFER_SIZE, 0, 1)
    /\ tor = [have |-> {}, deadline |-> <<>>, resets |-> <<>>, issued |-> {}]
    /\ conn = [NewConnection EXCEPT !.open = FALSE, !.destroyed = TRUE]
    /\ rr = NoCursor
    /\ pieceReqs = {}
    /\ http = [handled |-> FALSE, registered |-> FALSE, request |-> NoRequest]
    /\ rq = [unit |-> <<>>, eq |-> FALSE, first |-> <<>>, dash |-> FALSE,
             last |-> <<>>, fileSize |-> 1]
    /\ rres = NoResult

\* The socket's readyRead: parseRequest.  With a request current, the
\* assert at its head stops a build that keeps asserts.
Receive(chunk, asserts) ==
    /\ ConnectionRuns /\ sconn.socketOpen
    /\ Len(sconn.requests) + CompleteRequests(sconn.receivedData \o chunk) <= MaxRequests
    /\ sconn' = IF sconn.request # 0 /\ asserts
                THEN [sconn EXCEPT !.aborted = TRUE, !.op = "abort"]
                ELSE [parseRequest(sconn, chunk) EXCEPT !.op = "receive", !.chunk = chunk]
    /\ UNCHANGED <<info, files, tor, conn, rr, pieceReqs, http, rq, rres, server, call, sched, responses, pending, loader, cache>>

\* StreamRequest::send on a request the server handed out: the status line
\* and headers are written; without content the request completes at once,
\* and its completed signal runs the connection's freeRequest
Send(id, keepAlive, hasContent) ==
    /\ ConnectionRuns
    /\ sconn.requests[id].state = "pending"
    /\ LET sent == WriteSocket([sconn EXCEPT !.requests[id].closeAfter = ~keepAlive], 200)
       IN  sconn' = [(IF hasContent THEN [sent EXCEPT !.requests[id].state = "streaming"]
                      ELSE freeRequest([sent EXCEPT !.requests[id].state = "done"]))
                     EXCEPT !.op = "send"]
    /\ UNCHANGED <<info, files, tor, conn, rr, pieceReqs, http, rq, rres, server, call, sched, responses, pending, loader, cache>>

\* StreamResponse::write of the last bytes of the content: completed, and
\* the connection's freeRequest
ResponseCompleted(id) ==
    /\ ConnectionRuns
    /\ sconn.requests[id].state = "streaming"
    /\ sconn' = [freeRequest(WriteSocket([sconn EXCEPT !.requests[id].state = "done"], 0))
                 EXCEPT !.op = "completed"]
    /\ UNCHANGED <<info, files, tor, conn, rr, pieceReqs, http, rq, rres, server, call, sched, responses, pending, loader, cache>>

\* The socket's bytesWritten, the queue drained: the idle timer restarts
SocketWritten ==
    /\ ConnectionRuns /\ sconn.socketOpen /\ sconn.queued > 0
    /\ sconn' = [sconn EXCEPT !.queued = 0, !.idle = 0, !.op = "written"]
    /\ UNCHANGED <<info, files, tor, conn, rr, pieceReqs, http, rq, rres, server, call, sched, responses, pending, loader, cache>>

\* The socket's disconnected: freeRequest
SocketDisconnected ==
    /\ ConnectionRuns /\ sconn.disconnecting
    /\ sconn' = [freeRequest(sconn) EXCEPT !.disconnecting = FALSE, !.op = "disconnected"]
    /\ UNCHANGED <<info, files, tor, conn, rr, pieceReqs, http, rq, rres, server, call, sched, responses, pending, loader, cache>>

\* Time passes, up to the next sweep
TimePasses(d) ==
    /\ ConnectionRuns
    /\ sconn.sinceSweep + d <= SweepInterval
    /\ sconn' = [sconn EXCEPT !.idle = Min(@ + d, MaxIdle), !.sinceSweep = @ + d,
                              !.op = "time"]
    /\ UNCHANGED <<info, files, tor, conn, rr, pieceReqs, http, rq, rres, server, call, sched, responses, pending, loader, cache>>

\* The server's dropConnectionTimer fires: the sweep
Sweep ==
    /\ ConnectionRuns
    /\ sconn.sinceSweep = SweepInterval
    /\ sconn' = [sconn EXCEPT !.sinceSweep = 0, !.op = "sweep",
                              !.removed = hasExpired(sconn, KEEP_ALIVE_DURATION)]
    /\ UNCHANGED <<info, files, tor, conn, rr, pieceReqs, http, rq, rres, server, call, sched, responses, pending, loader, cache>>

NextConnection ==
    \/ \E chunk \in Chunks, asserts \in BOOLEAN : Receive(chunk, asserts)
    \/ \E id \in 1..MaxRequests, keepAlive \in BOOLEAN, hasContent \in BOOLEAN :
           id <= Len(sconn.requests) /\ Send(id, keepAlive, hasContent)
    \/ \E id \in 1..MaxRequests : id <= Len(sconn.requests) /\ ResponseCompleted(id)
    \/ SocketWritten
    \/ SocketDisconnected
    \/ \E d \in Delays : TimePasses(d)
    \/ Sweep

SpecConnection == InitConnection /\ [][NextConnection]_vars

(***************************************************************************)
(* SpecSchedule: the piece scheduling of a read cursor, for both variants  *)
(* of StreamFile::doRead: the one with the fixed deadline (streamfile.cpp) *)
(* and the one whose deadline follows the time since the last feed         *)
(* (streamingmanager.cpp).  The calls each doRead and each cancellation    *)
(* makes on the torrent are recorded in order, setPieceDeadline with its   *)
(* deadline and its critical flag.  The connection is left out: a step is  *)
(* whatever lets notifyBlockReceived run.                                  *)
(***************************************************************************)
MIN_DEADLINE_TIME == 32
MAX_DEADLINE_TIME == 320

MaxSchedPieces == 4

\* A time in ms of the qint64 QElapsedTimer::elapsed, q * 2^31 + r, kept in
\* two parts of 31 bits
ElapsedPart == 2147483647
ElapsedTimes ==
    [q : 0..2, r : {0, 31, 100, 321, ElapsedPart}]

ZeroElapsed == [q |-> 0, r |-> 0]

\* e1 <= e2
NoLater(e1, e2) == e1.q < e2.q \/ (e1.q = e2.q /\ e1.r <= e2.r)

\* The conversion of the qint64 to int made by std::max<int>: the low 32
\* bits, as a signed number
ToInt(e) == IF e.q % 2 = 0 THEN e.r ELSE (e.r - ElapsedPart) - 1

\* Mutant of DeadlineTime: no upper clamp
DeadlineTimeNoMax(e) == Max(ToInt(e), MIN_DEADLINE_TIME)

\* deadlineTime of StreamFile::doRead (streamingmanager.cpp)
DeadlineTime(e) == Min(Max(ToInt(e), MIN_DEADLINE_TIME), MAX_DEADLINE_TIME)

\* The deadline of the current piece in each variant
DeadlineOf(variant, e) ==
    IF variant = "fixed" THEN DEADLINE_TIME ELSE DeadlineTime(e)

ReadPieceCall(index) ==
    [op |-> "readPiece", index |-> index, deadline |-> 0, critical |-> FALSE]
SetPieceDeadlineCall(index, deadline, critical) ==
    [op |-> "setPieceDeadline", index |-> index, deadline |-> deadline,
     critical |-> critical]
ResetPieceDeadlineCall(index) ==
    [op |-> "resetPieceDeadline", index |-> index, deadline |-> 0, critical |-> FALSE]

\* Mutant of AdvanceCalls: a deadline for every piece of the window
RECURSIVE AdvanceCallsAll(_, _, _, _)
AdvanceCallsAll(t, range, pieceIndex, deadlineTime) ==
    IF pieceIndex > range.end THEN <<>>
    ELSE <<SetPieceDeadlineCall(pieceIndex,
               deadlineTime * ((pieceIndex - range.start + 1) + 1), FALSE)>>
         \o AdvanceCallsAll(t, range, pieceIndex + 1, deadlineTime)

\* Mutant of AdvanceCalls: the same deadline for every piece of the window
RECURSIVE AdvanceCallsFlat(_, _, _, _)
AdvanceCallsFlat(t, range, pieceIndex, deadlineTime) ==
    IF pieceIndex > range.end THEN <<>>
    ELSE (IF HavePiece(t, pieceIndex) THEN <<>>
          ELSE <<SetPieceDeadlineCall(pieceIndex, deadlineTime * 2, FALSE)>>)
         \o AdvanceCallsFlat(t, range, pieceIndex + 1, deadlineTime)

\* The calls of the loop of doRead over the window, from pieceIndex on
RECURSIVE AdvanceCalls(_, _, _, _)
AdvanceCalls(t, range, pieceIndex, deadlineTime) ==
    IF pieceIndex > range.end THEN <<>>
    ELSE (IF HavePiece(t, pieceIndex) THEN <<>>
          ELSE <<SetPieceDeadlineCall(pieceIndex,
                     deadlineTime * ((pieceIndex - range.start + 1) + 1), FALSE)>>)
         \o AdvanceCalls(t, range, pieceIndex + 1, deadlineTime)

\* Mutant of DoReadCalls: the window the cursor held is released first
DoReadCallsReleasing(deadlineTime, r, t, f, i) ==
    IF r.leftSize = 0 THEN <<>>
    ELSE
        LET pieceInfo == MapFile(i, r.currentPosition, Min(r.leftSize, f.pieceLength))
            released == IF r.advanceRange = NoPieceRange THEN <<>>
                        ELSE [k \in 1..(r.advanceRange.end - r.advanceRange.start + 1) |->
                                 ResetPieceDeadlineCall(r.advanceRange.start + k - 1)]
            current == IF HavePiece(t, pieceInfo.index)
                       THEN ReadPieceCall(pieceInfo.index)
                       ELSE SetPieceDeadlineCall(pieceInfo.index, deadlineTime, TRUE)
        IN  released \o <<current>>
            \o (IF pieceInfo.index < f.lastPiece
                THEN AdvanceCalls(t, AdvanceRange(f, pieceInfo.index),
                                  pieceInfo.index + 1, deadlineTime)
                ELSE <<>>)

\* The calls StreamFile::doRead makes on the torrent, in order
DoReadCalls(deadlineTime, r, t, f, i) ==
    IF r.leftSize = 0 THEN <<>>
    ELSE
        LET pieceInfo == MapFile(i, r.currentPosition, Min(r.leftSize, f.pieceLength))
            current == IF HavePiece(t, pieceInfo.index)
                       THEN ReadPieceCall(pieceInfo.index)
                       ELSE SetPieceDeadlineCall(pieceInfo.index, deadlineTime, TRUE)
        IN  <<current>>
            \o (IF pieceInfo.index < f.lastPiece
                THEN AdvanceCalls(t, AdvanceRange(f, pieceInfo.index),
                                  pieceInfo.index + 1, deadlineTime)
                ELSE <<>>)

\* The calls of the cancelled handler connected in StreamFile::read
CancelledCalls(r) ==
    IF r.advanceRange.start = -1 \/ r.advanceRange.end = -1 THEN <<>>
    ELSE [k \in 1..(r.advanceRange.end - r.advanceRange.start + 1) |->
             ResetPieceDeadlineCall(r.advanceRange.start + k - 1)]

\* What a call does to the torrent
ApplyCall(t, c) ==
    IF c.op = "setPieceDeadline" THEN SetPieceDeadline(t, c.index, c.deadline)
    ELSE IF c.op = "resetPieceDeadline" THEN ResetPieceDeadline(t, c.index)
    ELSE t

RECURSIVE ApplyCalls(_, _)
ApplyCalls(t, calls) ==
    IF calls = <<>> THEN t ELSE ApplyCalls(ApplyCall(t, Head(calls)), Tail(calls))

SchedGeometries ==
    {Geometry(pl, fo, n) : pl \in {16 * MiB, 32 * MiB}, fo \in FileOffsets,
                           n \in 1..MaxSchedPieces}

\* The ranges a cursor is made for: the whole file, its first byte, its last
\* byte, what follows the first piece of the file, and the file less its
\* last piece length
SchedRanges(i) ==
    {<<0, i.fileSize>>, <<0, 1>>, <<i.fileSize - 1, 1>>}
        \cup (IF i.fileSize > i.pieceLength
              THEN {<<i.pieceLength - i.fileOffset, i.fileSize - (i.pieceLength - i.fileOffset)>>,
                    <<0, i.fileSize - i.pieceLength>>}
              ELSE {})

\* op: the last operation; elapsed, deadline: the time since the last feed
\* read by the last doRead and the deadline it computed; calls: the calls
\* the last operation made on the torrent; window: the cursor's window
\* before the last doRead
NoSchedule ==
    [variant |-> "fixed", op |-> "none", elapsed |-> ZeroElapsed, deadline |-> 0,
     calls |-> <<>>, window |-> NoPieceRange]

InitSchedule ==
    /\ info \in SchedGeometries
    /\ \E variant \in {"fixed", "adaptive"} :
           sched = [NoSchedule EXCEPT !.variant = variant]
    /\ files = <<StreamFile(0, "t", info)>>
    /\ tor = [have |-> {},
              deadline |-> [p \in PieceIndices(info) |-> 0],
              resets |-> [p \in PieceIndices(info) |-> 0],
              issued |-> {}]
    /\ conn = NewConnection
    /\ rr = NoCursor
    /\ pieceReqs = {}
    /\ http = [handled |-> FALSE, registered |-> FALSE, request |-> NoRequest]
    /\ rq = [unit |-> <<>>, eq |-> FALSE, first |-> <<>>, dash |-> FALSE,
             last |-> <<>>, fileSize |-> 1]
    /\ rres = NoResult
    /\ server = ListeningServer
    /\ call = NoCall
    /\ sconn = <<>>
    /\ responses = <<>>
    /\ pending = <<>>
    /\ loader = <<>>
    /\ cache = <<>>

\* doRead of the variant on the cursor r, elapsed after the last feed
SchedDoRead(r, elapsed, op) ==
    LET f == files[1]
        deadlineTime == DeadlineOf(sched.variant, elapsed)
        out == DoReadWith(deadlineTime, r, tor, pieceReqs, f, info)
    IN  /\ rr' = out.rr
        /\ tor' = out.tor
        /\ pieceReqs' = out.reqs
        /\ sched' = [sched EXCEPT !.op = op,
                                  !.elapsed = elapsed,
                                  !.deadline = deadlineTime,
                                  !.calls = DoReadCalls(deadlineTime, r, tor, f, info),
                                  !.window = r.advanceRange]

\* StreamFile::read: the cursor is made, its timer started, and doRead runs
SchedRead(position, size) ==
    /\ rr.state = "none"
    /\ SchedDoRead(ReadRequestPrivate(position, size), ZeroElapsed, "read")
    /\ UNCHANGED <<info, files, conn, http, rq, rres, server, call, sconn, responses, pending, loader, cache>>

\* The engine finishes downloading a piece of the file
SchedPieceDownloaded(p) ==
    /\ p <= LastFilePiece(info)
    /\ ~HavePiece(tor, p)
    /\ tor' = [tor EXCEPT !.have = @ \cup {p}, !.deadline[p] = 0]
    /\ sched' = [sched EXCEPT !.op = "downloaded", !.calls = <<>>]
    /\ UNCHANGED <<info, files, conn, rr, pieceReqs, http, rq, rres, server, call, sconn, responses, pending, loader, cache>>

\* PieceRequest::complete: feed, which restarts the timer
SchedPieceComplete(q) ==
    /\ rr.state = "live"
    /\ q \in pieceReqs
    /\ HavePiece(tor, q.index)
    /\ rr' = Feed(rr, BlockMid(PieceData(info, q.index), q.start, q.length))
    /\ pieceReqs' = pieceReqs \ {q}
    /\ sched' = [sched EXCEPT !.op = "feed", !.calls = <<>>]
    /\ UNCHANGED <<info, files, tor, conn, http, rq, rres, server, call, sconn, responses, pending, loader, cache>>

\* ReadRequest::notifyBlockReceived, elapsed after the feed: doRead
SchedBlockReceived(elapsed) ==
    /\ rr.state = "live"
    /\ rr.isBlockPending
    /\ sched.variant = "fixed" => elapsed = ZeroElapsed
    /\ SchedDoRead(ClearBlockPending(rr), elapsed, "step")
    /\ UNCHANGED <<info, files, conn, http, rq, rres, server, call, sconn, responses, pending, loader, cache>>

\* The cursor is deleted with bytes left: cancelled
SchedCancel ==
    /\ rr.state = "live"
    /\ rr.leftSize # 0
    /\ LET gone == DestroyRequest(rr, tor)
       IN  /\ rr' = gone.rr
           /\ tor' = gone.tor
           /\ pieceReqs' = gone.reqs
    /\ sched' = [sched EXCEPT !.op = "cancel", !.calls = CancelledCalls(rr)]
    /\ UNCHANGED <<info, files, conn, http, rq, rres, server, call, sconn, responses, pending, loader, cache>>

NextSchedule ==
    \/ \E range \in SchedRanges(info) : SchedRead(range[1], range[2])
    \/ \E p \in PieceIndices(info) : SchedPieceDownloaded(p)
    \/ \E q \in pieceReqs : SchedPieceComplete(q)
    \/ \E elapsed \in ElapsedTimes : SchedBlockReceived(elapsed)
    \/ SchedCancel

SpecSchedule == InitSchedule /\ [][NextSchedule]_vars

(***************************************************************************)
(* SpecLive: a GET served to its end, under the conditions that let it     *)
(* end: the engine downloads every piece, every piece request completes,   *)
(* the socket drains its queue and reports it, the client stays and the    *)
(* torrent is not removed.                                                 *)
(***************************************************************************)
LiveGeometries == {Geometry(pl, 0, n) : pl \in PieceLengths, n \in 1..2}

\* The whole file, the file from the last byte of its first piece on, its
\* first byte, and a range that ends 4 bytes after the torrent
LiveRanges(i) ==
    {OpenRangeText(0),
     OpenRangeText(Min(i.pieceLength, i.fileSize) - 1),
     RangeText(0, 0),
     RangeText(0, i.totalSize + 3)}

LiveRequests(i) == [method : {"GET"}, path : {RegisteredPath}, range : LiveRanges(i)]

InitLive ==
    /\ info \in LiveGeometries
    /\ files = <<StreamFile(0, "t", info)>>
    /\ tor = [have |-> {},
              deadline |-> [p \in PieceIndices(info) |-> 0],
              resets |-> [p \in PieceIndices(info) |-> 0],
              issued |-> {}]
    /\ conn = NewConnection
    /\ rr = NoCursor
    /\ pieceReqs = {}
    /\ http = [handled |-> FALSE, registered |-> FALSE, request |-> NoRequest]
    /\ rq = [unit |-> <<>>, eq |-> FALSE, first |-> <<>>, dash |-> FALSE,
             last |-> <<>>, fileSize |-> 1]
    /\ rres = NoResult
    /\ server = ListeningServer
    /\ call = NoCall
    /\ sconn = <<>>
    /\ responses = <<>>
    /\ pending = <<>>
    /\ loader = <<>>
    /\ cache = <<>>
    /\ sched = <<>>

NextLive ==
    \/ \E p \in PieceIndices(info) : PieceDownloaded(p)
    \/ \E request \in LiveRequests(info) : HandleRequest(request)
    \/ \E q \in pieceReqs : PieceComplete(q)
    \/ \E left \in DrainLevels(info) : BytesWritten(left)

SpecLive ==
    /\ InitLive
    /\ [][NextLive]_vars
    /\ WF_vars(\E p \in PieceIndices(info) : PieceDownloaded(p))
    /\ WF_vars(\E q \in pieceReqs : PieceComplete(q))
    /\ WF_vars(BytesWritten(0))

(***************************************************************************)
(* Properties.                                                             *)
(***************************************************************************)
TheFile == StreamFile(0, "t", info)

FileStart == info.fileOffset
FileEnd == info.fileOffset + info.fileSize

\* The cursor was created for a range lying in the file
RangeInFile == rr.first >= 0 /\ rr.size >= 1 /\ rr.first + rr.size <= info.fileSize

RECURSIVE BlocksSize(_)
BlocksSize(blocks) ==
    IF blocks = <<>> THEN 0 ELSE BlockSize(Head(blocks)) + BlocksSize(Tail(blocks))

\* The blocks follow one another from torrent offset from on, none empty
Contiguous(blocks, from) ==
    \A k \in 1..Len(blocks) :
        /\ blocks[k].lo = (IF k = 1 THEN from ELSE blocks[k - 1].hi)
        /\ blocks[k].lo < blocks[k].hi

\* The file data the connection took: the content calls made while the
\* socket was open
RECURSIVE BodyBytes(_)
BodyBytes(log) ==
    IF log = <<>> THEN 0
    ELSE (IF Head(log).op = "content" /\ Head(log).open
          THEN BlockSize(Head(log).data) ELSE 0) + BodyBytes(Tail(log))

StatusCodes(log) ==
    {log[k].code : k \in {j \in 1..Len(log) : log[j].op = "status"}}

\* The ranges [a, b] inside the file that the handled request's Range
\* header names, as bytes=<a>-<b> or as bytes=<a>-
ValidRangesOfRequest ==
    {ab \in RangePoints(info) \X RangePoints(info) :
        /\ ab[1] <= ab[2] /\ ab[2] < info.fileSize
        /\ \/ http.request.range = RangeText(ab[1], ab[2])
           \/ (http.request.range = OpenRangeText(ab[1]) /\ ab[2] = info.fileSize - 1)}

\* C1 (as claimed): for every range the GET handler accepted, the blocks
\* the cursor emits by bytesRead are bytes of the file, follow one another
\* from the range's first byte on with no gap, no overlap and none empty,
\* and add up to the range's size once nothing is left.
C1_ByteExactAsClaimed ==
    rr.state # "none" =>
        /\ Contiguous(rr.fed, FileStart + rr.first)
        /\ \A k \in 1..Len(rr.fed) : rr.fed[k].hi <= FileEnd
        /\ rr.currentPosition = rr.first + BlocksSize(rr.fed)
        /\ (rr.leftSize = 0 => BlocksSize(rr.fed) = rr.size)

\* The same for a cursor whose range lies in the file (the precondition of
\* StreamFile::read): this part of C1 holds.
ByteExactInFile == RangeInFile => C1_ByteExactAsClaimed

ByteExactInFileWitness ==
    /\ RangeInFile /\ rr.leftSize = 0 /\ Len(rr.fed) >= 2 /\ rr.first > 0

\* C2: a read step is issued only with the connection's write queue below
\* the ceiling (the piece length), and so the queue stays below twice the
\* piece length.
C2_Backpressure ==
    /\ [](BytesToWrite(conn) < 2 * info.pieceLength)
    /\ [][rr'.steps > rr.steps => BytesToWrite(conn') < info.pieceLength]_vars

\* C2 witness: a block was fed after an earlier step, and the queue is at or
\* above the ceiling: the next step has to wait.
C2_Witness ==
    /\ rr.state = "live" /\ rr.isBlockPending /\ rr.steps >= 2
    /\ rr.leftSize > 0
    /\ BytesToWrite(conn) >= info.pieceLength

\* C3 (as claimed): once a cursor is destroyed with bytes left, every piece
\* the engine held a deadline for on its behalf - the window's pieces and
\* the piece being read - has had resetPieceDeadline exactly once.
C3_CancelReleasesAsClaimed ==
    rr.state = "cancelled" => \A p \in rr.held : tor.resets[p] = 1

\* The pieces of the cursor's recorded lookahead window
Window == {p \in PieceIndices(info) :
              rr.advanceRange.start # -1 /\ rr.advanceRange.end # -1
              /\ p >= rr.advanceRange.start /\ p <= rr.advanceRange.end}

\* C4 (amended): the window has at most ceil(BUFFER_SIZE / pieceLength)
\* pieces and none past the file's last piece; it starts right after the
\* piece being read whenever that piece is below the file's last piece.
C4_LookaheadBound ==
    rr.state = "live" =>
        /\ Cardinality(Window) <= CeilDiv(BUFFER_SIZE, info.pieceLength)
        /\ rr.advanceRange.end <= TheFile.lastPiece
        /\ \A p \in Window : p <= TheFile.lastPiece
        /\ \A q \in pieceReqs :
               q.index < TheFile.lastPiece => rr.advanceRange.start = q.index + 1

\* C4 witness: a full window that ends before the file's last piece
C4_Witness ==
    /\ rr.state = "live" /\ pieceReqs # {}
    /\ Cardinality(Window) = CeilDiv(BUFFER_SIZE, info.pieceLength)
    /\ rr.advanceRange.end < TheFile.lastPiece

\* C4 (as claimed), for ranges lying in the file: whenever a piece is being
\* read and a window is recorded, the window starts right after that piece.
C4_WindowStartsAfterCurrentAsClaimed ==
    (rr.state = "live" /\ RangeInFile) =>
        \A q \in pieceReqs :
            rr.advanceRange # NoPieceRange => rr.advanceRange.start = q.index + 1

\* C5: at most one current-piece request of the cursor is in flight.
C5_OneStepInFlight == Cardinality(pieceReqs) <= 1

\* C5 witness: a request is in flight after an earlier step, while the
\* connection still has bytes to write (a bytesWritten can come).
C5_Witness ==
    /\ rr.state = "live" /\ pieceReqs # {} /\ rr.steps >= 2
    /\ BytesToWrite(conn) > 0 /\ BytesToWrite(conn) < info.pieceLength

\* C7 (as claimed): a range handed to StreamFile::read lies in the file, and
\* a GET whose Range names a last byte at or past the file size gets the
\* invalid-range error, no 206, and a closed connection.
C7_AcceptedRangeInFileAsClaimed ==
    /\ rr.state # "none" => RangeInFile
    /\ (/\ http.handled /\ http.registered /\ http.request.method = "GET"
        /\ \E a, b \in RangePoints(info) :
               b >= info.fileSize /\ http.request.range = RangeText(a, b))
       => /\ 206 \notin StatusCodes(conn.log)
          /\ InvalidRangeHTTPError \in StatusCodes(conn.log)
          /\ ~conn.open

\* C8: a GET of a registered file with a Range inside the file writes 206,
\* then the headers with content-range bytes a-b/size and content-length
\* b-a+1, then only body; once nothing is left, the body handed to the
\* connection is b-a+1 bytes, the connection is closed after it, and, the
\* client not having gone away and the torrent not having been removed
\* meanwhile, the connection took all of it.
C8_PartialContent ==
    (http.handled /\ http.registered /\ http.request.method = "GET") =>
        \A ab \in ValidRangesOfRequest :
            /\ Len(conn.log) >= 2
            /\ conn.log[1] = [op |-> "status", code |-> 206, open |-> TRUE]
            /\ conn.log[2].op = "headers"
            /\ conn.log[2].headers.contentRange =
                   BytesUnit \o <<" ">> \o Number(ab[1]) \o <<"-">> \o Number(ab[2])
                       \o <<"/">> \o Number(info.fileSize)
            /\ conn.log[2].headers.contentLength = Number(ab[2] - ab[1] + 1)
            /\ \A k \in 3..Len(conn.log) : conn.log[k].op \in {"content", "close"}
            /\ rr.state # "none"
            /\ rr.leftSize = 0 =>
                   /\ BlocksSize(rr.fed) = ab[2] - ab[1] + 1
                   /\ ~conn.open
                   /\ conn.log[Len(conn.log)].op = "close"
                   /\ \E k \in 3..(Len(conn.log) - 1) :
                          /\ conn.log[k].op = "content"
                          /\ \A j \in (k + 1)..Len(conn.log) : conn.log[j].op = "close"
                   /\ (~conn.disconnected /\ ~rr.removedLive) =>
                          BodyBytes(conn.log) = ab[2] - ab[1] + 1

\* C8 witness: a range starting inside the file was delivered in two blocks
\* or more to a client that stayed.
C8_Witness ==
    /\ http.handled /\ http.registered /\ http.request.method = "GET"
    /\ ValidRangesOfRequest # {}
    /\ rr.leftSize = 0 /\ Len(rr.fed) >= 2 /\ rr.first > 0
    /\ ~conn.disconnected

\* The calls a HEAD of the handled request's path makes on a new connection
HeadCallsForPath ==
    HandleRequestOutcome([method |-> "HEAD", path |-> http.request.path,
                          range |-> <<>>],
                         NewConnection, NoCursor, tor, {},
                         IF http.registered THEN <<TheFile>> ELSE <<>>, info).conn.log

\* C9 (as claimed): a GET with no Range header makes the calls of a HEAD of
\* the same path on the connection and no other, and creates no cursor.
C9_GetWithoutRangeIsHeadAsClaimed ==
    (http.handled /\ http.request.method = "GET" /\ http.request.range = <<>>) =>
        /\ conn.log = HeadCallsForPath
        /\ rr.state = "none"

\* C10: a HEAD of a registered file writes status 200, then the headers
\* accept-ranges: bytes, connection: close, content-length: the file size
\* and the content type, then closes; no body, and the connection is closed
\* from then on.
C10_Head ==
    (http.handled /\ http.registered /\ http.request.method = "HEAD") =>
        /\ conn.log =
             << [op |-> "status", code |-> 200, open |-> TRUE],
                [op |-> "headers", open |-> TRUE,
                 headers |-> [acceptRanges |-> <<"b", "y", "t", "e", "s">>,
                              connection |-> <<"c", "l", "o", "s", "e">>,
                              contentLength |-> Number(info.fileSize),
                              contentType |-> TheFile.mimeType]],
                [op |-> "close", open |-> TRUE] >>
        /\ ~conn.open
        /\ BodyBytes(conn.log) = 0

C10_Witness ==
    /\ http.handled /\ http.registered /\ http.request.method = "HEAD"
    /\ BytesToWrite(conn) = 0

(***************************************************************************)
(* The Range header grammar, read off the header value itself: the unit    *)
(* before the first '=', the first position up to the first '-' after it,  *)
(* the last position after that '-'.                                       *)
(***************************************************************************)
Positions(v, ch) == {k \in 1..Len(v) : v[k] = ch}

Least(S) == CHOOSE k \in S : \A j \in S : k <= j

GrammarHasUnit(v) == Positions(v, "=") # {}

GrammarUnit(v) == SubSeq(v, 1, Least(Positions(v, "=")) - 1)

GrammarPositions(v) == SubSeq(v, Least(Positions(v, "=")) + 1, Len(v))

GrammarHasSeparator(v) == GrammarHasUnit(v) /\ Positions(GrammarPositions(v), "-") # {}

GrammarFirst(v) ==
    SubSeq(GrammarPositions(v), 1, Least(Positions(GrammarPositions(v), "-")) - 1)

GrammarLast(v) ==
    SubSeq(GrammarPositions(v), Least(Positions(GrammarPositions(v), "-")) + 1,
           Len(GrammarPositions(v)))

IsUnsignedText(s) ==
    s # <<>> /\ \A k \in 1..Len(s) :
                   s[k] \in {"0", "1", "2", "3", "4", "5", "6", "7", "8", "9"}

\* The numbers a position of SpecRange's header values can be
RangeNumbers == 0..(2 * MaxPos)

Accepted(a, b) == [ok |-> TRUE, firstBytePos |-> a, lastBytePos |-> b]

\* The parts of C6 about well-formed values and about a bad unit, a missing
\* '-', a malformed first position and a > b: these hold.
RangeParserAgreesOnFirst ==
    rres # NoResult =>
        LET v == HeaderValue(rq)
            size == rq.fileSize
        IN  /\ \A a, b \in RangeNumbers :
                   (v = RangeText(a, b) /\ a <= b /\ b < size) =>
                       /\ rres = Accepted(a, b)
                       /\ (a = b => RangeSize(rres) = 1)
            /\ \A a \in RangeNumbers :
                   (v = OpenRangeText(a) /\ a < size) => rres = Accepted(a, size - 1)
            /\ \A a, b \in RangeNumbers :
                   (v = RangeText(a, b) /\ a > b) => ~rres.ok
            /\ ~GrammarHasUnit(v) => ~rres.ok
            /\ (GrammarHasUnit(v) /\ GrammarUnit(v) # BytesUnit) => ~rres.ok
            /\ (GrammarHasUnit(v) /\ ~GrammarHasSeparator(v)) => ~rres.ok
            /\ (GrammarHasSeparator(v) /\ ~IsUnsignedText(GrammarFirst(v))) => ~rres.ok

\* C6 (as claimed): the parser agrees with the reference parser on every
\* value: bytes=<a>-<b> with a <= b < fileSize gives (a, b), bytes=<a>- gives
\* (a, fileSize - 1), and a value with another unit, with no '-', with a
\* malformed first or last position, or with a > b is rejected.
C6_RangeParserAsClaimed ==
    /\ RangeParserAgreesOnFirst
    /\ rres # NoResult =>
           LET v == HeaderValue(rq)
           IN  (/\ GrammarHasSeparator(v)
                /\ GrammarLast(v) # <<>>
                /\ ~IsUnsignedText(GrammarLast(v))) => ~rres.ok

(***************************************************************************)
(* Dispatch errors.                                                        *)
(***************************************************************************)
\* The handled request is one of C11: a method that is neither HEAD nor GET,
\* or a HEAD, or a GET with a Range header, of a path that names no
\* registered file
OtherMethod == http.handled /\ http.request.method \notin {"HEAD", "GET"}

UnknownPath ==
    /\ http.handled /\ ~http.registered
    /\ \/ http.request.method = "HEAD"
       \/ http.request.method = "GET" /\ http.request.range # <<>>

\* C11: another method is answered 405 and an unknown path 404, each as the
\* only status line, with the connection closed after it, no cursor, and no
\* piece deadline set or reset; handling such a request registers no file.
C11_DispatchErrors ==
    /\ [](OtherMethod \/ UnknownPath =>
            /\ conn.log # <<>>
            /\ conn.log[1] = [op |-> "status", open |-> TRUE,
                              code |-> IF OtherMethod THEN MethodNotAllowedHTTPError
                                       ELSE NotFoundHTTPError]
            /\ \A k \in 2..Len(conn.log) : conn.log[k].op # "status"
            /\ conn.log[Len(conn.log)].op = "close"
            /\ ~conn.open
            /\ rr = NoCursor
            /\ pieceReqs = {}
            /\ tor.issued = {}
            /\ \A p \in PieceIndices(info) : tor.deadline[p] = 0 /\ tor.resets[p] = 0)
    /\ [][(~http.handled /\ http'.handled) => files' = files]_vars

\* C11 witness: a GET with a Range header of a path that is not the name of
\* the file that is registered
C11_Witness ==
    /\ UnknownPath /\ http.request.method = "GET"
    /\ files # <<>>
    /\ http.request.path # <<>>

\* The status lines among the calls made on the connection
StatusCalls(log) == SelectSeq(log, LAMBDA e : e.op = "status")

\* C12 (as claimed): when handling ends in an HTTP error, the error's status
\* line is the only status line and the first call made on the connection,
\* and the connection is closed after the error response.
C12_ErrorStatusOnlyAsClaimed ==
    (http.handled /\ \E code \in {NotFoundHTTPError, MethodNotAllowedHTTPError,
                                  InvalidRangeHTTPError} :
                         code \in StatusCodes(conn.log)) =>
        /\ Len(StatusCalls(conn.log)) = 1
        /\ conn.log[1].op = "status"
        /\ ~conn.open

(***************************************************************************)
(* Torrent removal, cancellation and piece failure.                        *)
(***************************************************************************)
\* The first call a request of the registered path makes on a new
\* connection, were it handled with the registry fs
FirstCallFor(method, range, fs) ==
    HandleRequestOutcome([method |-> method, path |-> RegisteredPath, range |-> range],
                         NewConnection, NoCursor, tor, {}, fs, info).conn.log[1]

C15_RemovalMidStreamAsClaimed ==
    /\ [][rr.removedLive =>
            /\ BodyBytes(conn'.log) = BodyBytes(conn.log)
            /\ rr'.steps = rr.steps]_vars
    /\ []((rr.removedLive /\ rr.state = "cancelled") =>
             \A p \in rr.held : tor.resets[p] >= 1)

\* The part of C15 about body bytes and read steps: it holds.
NothingAfterRemoval ==
    [][rr.removedLive =>
          /\ BodyBytes(conn'.log) = BodyBytes(conn.log)
          /\ rr'.steps = rr.steps]_vars

\* The part of C15 about the pieces of the lookahead window alone: violated
\* too, the cancelled handler being disconnected with the file.
WindowReleasedAfterRemoval ==
    (rr.removedLive /\ rr.state = "cancelled") =>
        \A p \in rr.held \cap Window : tor.resets[p] >= 1

\* The cursor's own fields, the record of its file's deletion apart
OwnFields(r) == [r EXCEPT !.fileDestroyed = FALSE, !.removedLive = FALSE]

CloseCalls(log) == SelectSeq(log, LAMBDA e : e.op = "close")

\* C16: no piece has resetPieceDeadline twice; a cancelled cursor is never
\* changed again and nothing is reset or prioritized after it; a closed
\* connection stays closed and takes no bytes, whatever is applied to it.
C16_CancellationIdempotent ==
    /\ [](\A p \in PieceIndices(info) : tor.resets[p] <= 1)
    /\ [][rr.state = "cancelled" =>
            /\ OwnFields(rr') = OwnFields(rr)
            /\ tor'.resets = tor.resets
            /\ tor'.issued = tor.issued
            /\ pieceReqs' = pieceReqs]_vars
    /\ [][~conn.open =>
            /\ ~conn'.open
            /\ BytesToWrite(conn') <= BytesToWrite(conn)
            /\ BodyBytes(conn'.log) = BodyBytes(conn.log)]_vars

\* C16 witness: a cursor cancelled with a window piece reset, on a connection
\* that was closed and then closed again
C16_Witness ==
    /\ rr.state = "cancelled"
    /\ \E p \in PieceIndices(info) : tor.resets[p] = 1
    /\ Len(CloseCalls(conn.log)) >= 2
    /\ ~CloseCalls(conn.log)[2].open

\* C20: when the request for the current piece fails, the connection is
\* closed and the cursor destroyed with bytes left, in that step; no read
\* step is issued and no block fed in it or after it.
C20_PieceFailure ==
    /\ [](rr.errored =>
            /\ rr.state = "cancelled" /\ rr.leftSize > 0
            /\ ~conn.open
            /\ pieceReqs = {})
    /\ [][rr'.errored =>
            /\ rr'.steps = rr.steps
            /\ rr'.fed = rr.fed
            /\ BodyBytes(conn'.log) = BodyBytes(conn.log)]_vars
    /\ [][(~rr.errored /\ rr'.errored) =>
            conn'.log = Append(conn.log, [op |-> "close", open |-> conn.open])]_vars

\* C20 witness: the second step's request failed on an open connection
C20_Witness ==
    /\ rr.errored /\ rr.steps >= 2 /\ Len(rr.fed) >= 1
    /\ conn.log[Len(conn.log)] = [op |-> "close", open |-> TRUE]

(***************************************************************************)
(* The manager: its listener and its registry.                             *)
(***************************************************************************)
\* C17 (as claimed): a startListening that finds the server not listening
\* binds an ephemeral port if it binds at all, and one that finds it
\* listening leaves the listener as it is: not closed, not bound again, on
\* the same port.
C17_ListenerReuseAsClaimed ==
    [][call'.op = "startListening" =>
          IF server.listening THEN server' = server
          ELSE server'.listening => server'.port \in EphemeralPorts]_vars

\* The part of C17 about the first call: it holds.
FirstListenBindsEphemeral ==
    [][(call'.op = "startListening" /\ ~server.listening /\ server'.listening) =>
          server'.port \in EphemeralPorts /\ server'.closes = server.closes]_vars

\* The places in the registry of the StreamFiles of a pair
Registered(fileIndex, torrent) ==
    {k \in 1..Len(files) : files[k].fileIndex = fileIndex /\ files[k].torrent = torrent}

\* C18: the registry holds at most one StreamFile for a torrent and file
\* index; after playFile it holds one for the pair played; playFile leaves
\* the registry as it is when the pair is registered, and adds one
\* StreamFile, for the pair, when it is not.
C18_OneStreamFilePerPair ==
    /\ [](\A fileIndex \in FileIndexes, torrent \in Torrents :
             Cardinality(Registered(fileIndex, torrent)) <= 1)
    /\ [](call.op = "playFile" =>
             Cardinality(Registered(call.fileIndex, call.torrent)) = 1)
    /\ [][call'.op = "playFile" =>
            IF Registered(call'.fileIndex, call'.torrent) # {}
            THEN files' = files
            ELSE /\ Len(files') = Len(files) + 1
                 /\ SubSeq(files', 1, Len(files)) = files
                 /\ files'[Len(files')].fileIndex = call'.fileIndex
                 /\ files'[Len(files')].torrent = call'.torrent]_vars

\* C18 witness: playFile of a pair registered before the other files of the
\* registry
C18_Witness ==
    /\ call.op = "playFile"
    /\ Len(files) >= 3
    /\ Registered(call.fileIndex, call.torrent) = {1}

(***************************************************************************)
(* The connection of the StreamingServer.                                  *)
(***************************************************************************)
BufferCeiling == (MAX_CONTENT_SIZE * 11) \div 10

\* C13: on a receipt, with the bytes buffered so far and the bytes received:
\* if they parse as Incomplete and are no more than the ceiling, nothing is
\* written, the socket stays open and the bytes stay buffered; if they parse
\* as Incomplete and exceed the ceiling, 413 is written and the socket
\* closed; if they parse as BadRequest, 400 is written and the socket
\* closed; and in the two error outcomes no request is created.
C13_ParsingOutcomes ==
    [][sconn'.op = "receive" =>
        LET data == sconn.receivedData \o sconn'.chunk
            status == Parse(data).status
            error(code) == /\ sconn'.written = Append(sconn.written, code)
                           /\ ~sconn'.socketOpen
                           /\ sconn'.requests = sconn.requests
                           /\ sconn'.request = sconn.request
        IN  /\ (status = "Incomplete" /\ Len(data) <= BufferCeiling) =>
                   /\ sconn'.written = sconn.written
                   /\ sconn'.queued = sconn.queued
                   /\ sconn'.socketOpen
                   /\ sconn'.receivedData = data
                   /\ sconn'.requests = sconn.requests
            /\ (status = "Incomplete" /\ Len(data) > BufferCeiling) => error(413)
            /\ status = "BadRequest" => error(400)]_vars

\* C13 witness: a receipt that takes the buffered bytes over the ceiling,
\* answered 413 with the socket closed and no request created
C13_Witness ==
    /\ sconn.op = "receive"
    /\ Parse(sconn.receivedData).status = "Incomplete"
    /\ Len(sconn.receivedData) > BufferCeiling
    /\ sconn.written = <<413>>
    /\ ~sconn.socketOpen
    /\ sconn.requests = <<>>

\* C19 (as claimed): the sweep removes a connection only if its socket is
\* closed, or it has been idle for the keep-alive window with an empty write
\* queue and no request in flight.
C19_SweepAsClaimed ==
    [][(~sconn.removed /\ sconn'.removed) =>
          \/ ~sconn.socketOpen
          \/ /\ sconn.idle >= KEEP_ALIVE_DURATION
             /\ sconn.queued = 0
             /\ InFlight(sconn) = {}]_vars

\* What the sweep keeps of C19: an open connection is removed only when idle
\* for longer than the window, with an empty write queue and no current
\* request (m_request).
SweepByCurrentRequest ==
    [][(~sconn.removed /\ sconn'.removed) =>
          \/ ~sconn.socketOpen
          \/ /\ sconn.idle > KEEP_ALIVE_DURATION
             /\ sconn.queued = 0
             /\ sconn.request = 0]_vars

\* The current request is in flight, but a request in flight need not be
\* the current one.
CurrentRequestInFlight ==
    sconn.request # 0 => sconn.request \in InFlight(sconn)

(***************************************************************************)
(* The piece scheduling of doRead.                                         *)
(***************************************************************************)
\* The calls recorded are the calls made: they take the torrent from its
\* state before the operation to its state after it.
CallsAreTheCalls ==
    [][sched'.op \in {"read", "step", "cancel"} =>
          ApplyCalls(tor, sched'.calls) = tor']_vars

\* A doRead that issued a piece request, seen as a step from the state
\* before it to the state after it
IsReadStep == sched'.op \in {"read", "step"} /\ sched'.calls # <<>>

\* The piece the cursor of the state stands at
CurrentPiece(r) == MapFile(info, r.currentPosition, Min(r.leftSize, info.pieceLength)).index

\* C21: in every read step, an available current piece is read (readPiece)
\* and gets no setPieceDeadline, an unavailable one gets setPieceDeadline
\* with the critical flag; every other call of the step is a setPieceDeadline
\* without the critical flag; and no setPieceDeadline of the step names a
\* piece that is available.
C21_DeadlinesOnlyForMissingPieces ==
    [][IsReadStep =>
        LET calls == sched'.calls
            current == CurrentPiece(rr')
        IN  /\ calls[1].index = current
            /\ HavePiece(tor, current) => calls[1].op = "readPiece"
            /\ ~HavePiece(tor, current) =>
                   calls[1].op = "setPieceDeadline" /\ calls[1].critical
            /\ \A k \in 2..Len(calls) :
                   /\ calls[k].op = "setPieceDeadline"
                   /\ ~calls[k].critical
                   /\ calls[k].index # current
            /\ \A k \in 1..Len(calls) :
                   calls[k].op = "setPieceDeadline" => ~HavePiece(tor, calls[k].index)]_vars

\* C21 witness: a step that read an available piece and skipped an available
\* piece of its window while giving a deadline to another
C21_Witness ==
    /\ sched.op = "step"
    /\ sched.calls # <<>>
    /\ sched.calls[1].op = "readPiece"
    /\ Len(sched.calls) >= 2
    /\ \E p \in rr.advanceRange.start..rr.advanceRange.end :
           /\ HavePiece(tor, p)
           /\ \A k \in 1..Len(sched.calls) : sched.calls[k].index # p

\* C22: in a read step with deadline d, a current piece that is not
\* available gets d and the lookahead piece at distance i from it, if not
\* available, gets d * (i + 1): more than d, and more the farther it is.
C22_DeadlinesGrowWithDistance ==
    [][IsReadStep =>
        LET calls == sched'.calls
            d == sched'.deadline
            current == CurrentPiece(rr')
        IN  /\ d > 0
            /\ calls[1].op = "setPieceDeadline" => calls[1].deadline = d
            /\ \A k \in 2..Len(calls) :
                   /\ calls[k].index > current
                   /\ calls[k].deadline = d * ((calls[k].index - current) + 1)
                   /\ calls[k].deadline > d
            /\ \A j, k \in 2..Len(calls) :
                   j < k => /\ calls[j].index < calls[k].index
                            /\ calls[j].deadline < calls[k].deadline]_vars

\* C22 witness: a step of the adaptive variant that gave deadlines to the
\* current piece and to two pieces ahead of it
C22_Witness ==
    /\ sched.op = "step" /\ sched.variant = "adaptive"
    /\ Len(sched.calls) >= 3
    /\ sched.calls[1].op = "setPieceDeadline"
    /\ sched.deadline = 100

\* The pieces of the window the cursor held before a step that are neither
\* in its new window nor the piece it reads
FallenOut ==
    {p \in sched'.window.start..sched'.window.end :
        /\ sched'.window # NoPieceRange
        /\ ~(p >= rr'.advanceRange.start /\ p <= rr'.advanceRange.end)
        /\ p # CurrentPiece(rr')}

NoPieceFallsOut ==
    [][IsReadStep => FallenOut = {}]_vars

C24_TailAtConstructionAsClaimed ==
    [][sched'.op = "read" =>
        LET lastByte == rr'.first + rr'.size - 1
            lastPiece == MapFile(info, lastByte, 1).index
        IN  (~HavePiece(tor, lastPiece)
             /\ (info.fileSize - 1) - lastByte < info.pieceLength) =>
                \E k \in 1..Len(sched'.calls) :
                    /\ sched'.calls[k].op = "setPieceDeadline"
                    /\ sched'.calls[k].index = lastPiece]_vars

\* C25: the deadline the adaptive variant gives the current piece is within
\* MIN_DEADLINE_TIME..MAX_DEADLINE_TIME, whatever the time since the last
\* feed.
C25_DeadlineClamped ==
    [][(IsReadStep /\ sched'.variant = "adaptive") =>
          /\ sched'.deadline \in MIN_DEADLINE_TIME..MAX_DEADLINE_TIME
          /\ sched'.calls[1].op = "setPieceDeadline" =>
                 sched'.calls[1].deadline \in MIN_DEADLINE_TIME..MAX_DEADLINE_TIME]_vars

\* C25 witness: a step taken more than 2^31 ms after the last feed, where
\* the time no longer fits an int, gave the current piece a deadline
C25_Witness ==
    /\ sched.op = "step" /\ sched.variant = "adaptive"
    /\ sched.elapsed.q = 1
    /\ sched.calls # <<>>
    /\ sched.calls[1].op = "setPieceDeadline"
    /\ sched.calls[1].deadline = MIN_DEADLINE_TIME

\* C26 (as claimed): of two consecutive read steps of the adaptive variant,
\* the one taken no sooner after the last feed computes no larger a
\* deadline.
C26_SlowerFeedShorterDeadlineAsClaimed ==
    [][(sched'.op = "step" /\ sched'.calls # <<>> /\ sched'.variant = "adaptive"
          /\ NoLater(sched.elapsed, sched'.elapsed)) =>
            sched'.deadline <= sched.deadline]_vars

\* What the code does instead, for times that fit an int: the later the
\* step, the larger the deadline.
SlowerFeedLongerDeadline ==
    [][(sched'.op = "step" /\ sched'.calls # <<>> /\ sched'.variant = "adaptive"
          /\ sched.elapsed.q = 0 /\ sched'.elapsed.q = 0
          /\ NoLater(sched.elapsed, sched'.elapsed)) =>
            sched'.deadline >= sched.deadline]_vars

(***************************************************************************)
(* The cursor's flag and counters, and the closed connection.              *)
(***************************************************************************)
\* C27 (as claimed): the block-pending flag of a living cursor is true
\* exactly while a piece request of it is in flight.
C27_BlockPendingAsClaimed ==
    rr.state = "live" => (rr.isBlockPending <=> pieceReqs # {})

\* What the flag is in the code: true from the feed of a block until the
\* next doRead is let run, that is exactly while no piece request is in
\* flight.
BlockPendingSinceFeed ==
    (rr.state = "live" /\ ~rr.fileDestroyed) =>
        (rr.isBlockPending <=> pieceReqs = {})

\* C28: from a state where the connection is closed, no operation issues a
\* read step: no piece request is added, no piece gets a deadline; and no
\* error is emitted unless a piece request in flight fails.
C28_NoStepAfterClose ==
    [][~conn.open =>
          /\ rr'.steps = rr.steps
          /\ pieceReqs' \subseteq pieceReqs
          /\ tor'.issued \subseteq tor.issued
          /\ \A p \in DOMAIN tor.deadline :
                 tor'.deadline[p] \in {tor.deadline[p], 0}
          /\ (rr'.errored /\ ~rr.errored) => pieceReqs # {}]_vars

\* C28 witness: the client gone, a block was fed to the closed connection
\* and the cursor rests with bytes left and no request in flight
C28_Witness ==
    /\ ~conn.open /\ conn.disconnected
    /\ rr.state = "live" /\ rr.leftSize > 0 /\ rr.isBlockPending
    /\ pieceReqs = {}
    /\ conn.log # <<>>
    /\ conn.log[Len(conn.log)].op = "content"
    /\ ~conn.log[Len(conn.log)].open

\* C30: the cursor's position and its bytes left add up to the first
\* position and the size it was made with; the position never goes back and
\* the bytes left never grow; and they change only with a block fed, by the
\* size of the block.
C30_PositionAccounting ==
    /\ [](rr.state # "none" =>
             rr.currentPosition + rr.leftSize = rr.first + rr.size)
    /\ [][rr.state # "none" =>
            /\ rr'.currentPosition >= rr.currentPosition
            /\ rr'.leftSize <= rr.leftSize
            /\ (rr'.currentPosition # rr.currentPosition \/ rr'.leftSize # rr.leftSize) =>
                   /\ Len(rr'.fed) = Len(rr.fed) + 1
                   /\ rr'.currentPosition - rr.currentPosition
                          = BlockSize(rr'.fed[Len(rr'.fed)])
                   /\ rr.leftSize - rr'.leftSize
                          = BlockSize(rr'.fed[Len(rr'.fed)])]_vars

\* C30 witness: a cursor made in mid-file was fed two blocks and has bytes
\* left
C30_Witness ==
    /\ rr.state = "live"
    /\ rr.first > 0
    /\ Len(rr.fed) = 2
    /\ rr.leftSize > 0

(***************************************************************************)
(* Progress of a served GET.                                               *)
(***************************************************************************)
\* The cursor has delivered its last block and the connection is closed
Delivered ==
    /\ rr.leftSize = 0
    /\ rr.fed # <<>>
    /\ ~conn.open
    /\ conn.log[Len(conn.log)].op = "close"

\* C29 (as claimed): a cursor with bytes left gets to have none left, its
\* last block delivered and the connection closed.
C29_ProgressAsClaimed ==
    (rr.state = "live" /\ rr.leftSize > 0) ~> Delivered

\* The part of C29 that is no liveness, as claimed: a living cursor with
\* bytes left never rests with no piece request in flight and nothing
\* queued whose writing would let the next step run.
NeverStalled ==
    ~(/\ rr.state = "live" /\ rr.leftSize > 0
      /\ pieceReqs = {}
      /\ conn.open /\ conn.queued = 0)

\* C29 holds for the cursors whose range ends inside the torrent.
ProgressInsideTorrent ==
    (rr.state = "live" /\ rr.leftSize > 0
        /\ info.fileOffset + rr.first + rr.size <= info.totalSize) ~> Delivered

(***************************************************************************)
(* SpecCursors: two cursors of one StreamFile, as two GETs on two          *)
(* connections make them.  rr and pieceReqs hold, per cursor, what they    *)
(* hold for the one cursor of Spec; the torrent is the one both cursors    *)
(* call.                                                                   *)
(***************************************************************************)
MaxCursorPieces == 3

CursorIds == 1..2

CursorGeometries ==
    {Geometry(pl, 0, n) : pl \in {16 * MiB, 32 * MiB}, n \in 2..MaxCursorPieces}

\* The ranges a cursor is made for: the whole file, its first byte, and what
\* follows the first piece of the file
CursorRanges(i) ==
    {<<0, i.fileSize>>, <<0, 1>>, <<i.pieceLength, i.fileSize - i.pieceLength>>}

InitCursors ==
    /\ info \in CursorGeometries
    /\ files = <<StreamFile(0, "t", info)>>
    /\ tor = [have |-> {},
              deadline |-> [p \in PieceIndices(info) |-> 0],
              resets |-> [p \in PieceIndices(info) |-> 0],
              issued |-> {}]
    /\ rr = [k \in CursorIds |-> NoCursor]
    /\ pieceReqs = [k \in CursorIds |-> {}]
    /\ conn = NewConnection
    /\ http = [handled |-> FALSE, registered |-> FALSE, request |-> NoRequest]
    /\ rq = [unit |-> <<>>, eq |-> FALSE, first |-> <<>>, dash |-> FALSE,
             last |-> <<>>, fileSize |-> 1]
    /\ rres = NoResult
    /\ server = ListeningServer
    /\ call = NoCall
    /\ sconn = <<>>
    /\ responses = <<>>
    /\ pending = <<>>
    /\ loader = <<>>
    /\ cache = <<>>
    /\ sched = <<>>

\* StreamFile::read for cursor k
CursorRead(k, position, size) ==
    /\ rr[k].state = "none"
    /\ LET out == Read(position, size, tor, {}, StreamFile(0, "t", info), info)
       IN  /\ rr' = [rr EXCEPT ![k] = out.rr]
           /\ tor' = out.tor
           /\ pieceReqs' = [pieceReqs EXCEPT ![k] = out.reqs]
    /\ UNCHANGED <<info, files, conn, http, rq, rres, server, call, sconn, sched, responses, pending, loader, cache>>

\* The engine finishes downloading a piece of the file
CursorPieceDownloaded(p) ==
    /\ p <= LastFilePiece(info)
    /\ ~HavePiece(tor, p)
    /\ tor' = [tor EXCEPT !.have = @ \cup {p}, !.deadline[p] = 0]
    /\ UNCHANGED <<info, files, conn, rr, pieceReqs, http, rq, rres, server, call, sconn, sched, responses, pending, loader, cache>>

\* PieceRequest::complete for a request of cursor k: feed
CursorPieceComplete(k, q) ==
    /\ rr[k].state = "live"
    /\ q \in pieceReqs[k]
    /\ HavePiece(tor, q.index)
    /\ rr' = [rr EXCEPT ![k] = Feed(@, BlockMid(PieceData(info, q.index), q.start, q.length))]
    /\ pieceReqs' = [pieceReqs EXCEPT ![k] = @ \ {q}]
    /\ UNCHANGED <<info, files, tor, conn, http, rq, rres, server, call, sconn, sched, responses, pending, loader, cache>>

\* The bytesWritten handler of cursor k's connection, the queue drained:
\* notifyBlockReceived when a block is pending
CursorBlockReceived(k) ==
    /\ rr[k].state = "live"
    /\ rr[k].isBlockPending
    /\ LET out == NotifyBlockReceived(rr[k], tor, pieceReqs[k],
                                      StreamFile(0, "t", info), info)
       IN  /\ rr' = [rr EXCEPT ![k] = out.rr]
           /\ tor' = out.tor
           /\ pieceReqs' = [pieceReqs EXCEPT ![k] = out.reqs]
    /\ UNCHANGED <<info, files, conn, http, rq, rres, server, call, sconn, sched, responses, pending, loader, cache>>

\* The connection of cursor k is deleted, and with it the cursor
CursorDestroyed(k) ==
    /\ rr[k].state = "live"
    /\ LET gone == DestroyRequest(rr[k], tor)
       IN  /\ rr' = [rr EXCEPT ![k] = gone.rr]
           /\ tor' = gone.tor
           /\ pieceReqs' = [pieceReqs EXCEPT ![k] = gone.reqs]
    /\ UNCHANGED <<info, files, conn, http, rq, rres, server, call, sconn, sched, responses, pending, loader, cache>>

NextCursors ==
    \/ \E k \in CursorIds, range \in CursorRanges(info) : CursorRead(k, range[1], range[2])
    \/ \E p \in PieceIndices(info) : CursorPieceDownloaded(p)
    \/ \E k \in CursorIds : \E q \in pieceReqs[k] : CursorPieceComplete(k, q)
    \/ \E k \in CursorIds : CursorBlockReceived(k)
    \/ \E k \in CursorIds : CursorDestroyed(k)

SpecCursors == InitCursors /\ [][NextCursors]_vars

(***************************************************************************)
(* SpecRemoval: the registry with files of two torrents, one connection    *)
(* with at most one request, and the removal of torrents.  http.file is    *)
(* the StreamFile the GET found; call is the last call, with the number of *)
(* files a removal deleted.                                                *)
(***************************************************************************)
NoFile == [name |-> <<>>, torrent |-> "", fileIndex |-> -1]

RemovalGeometry == Geometry(BUFFER_SIZE, 0, 2)

InitRemoval ==
    /\ info = RemovalGeometry
    /\ files = <<>>
    /\ tor = [have |-> {},
              deadline |-> [p \in PieceIndices(info) |-> 0],
              resets |-> [p \in PieceIndices(info) |-> 0],
              issued |-> {}]
    /\ conn = NewConnection
    /\ rr = NoCursor
    /\ pieceReqs = {}
    /\ http = [handled |-> FALSE, registered |-> FALSE, request |-> NoRequest,
               file |-> NoFile]
    /\ rq = [unit |-> <<>>, eq |-> FALSE, first |-> <<>>, dash |-> FALSE,
             last |-> <<>>, fileSize |-> 1]
    /\ rres = NoResult
    /\ server = ListeningServer
    /\ call = [NoCall EXCEPT !.op = "none"]
    /\ sconn = <<>>
    /\ responses = <<>>
    /\ pending = <<>>
    /\ loader = <<>>
    /\ cache = <<>>
    /\ sched = <<>>

\* StreamingManager::playFile(fileIndex, torrent)
RemovalPlayFile(fileIndex, torrent) ==
    /\ files' = playFile(files, fileIndex, torrent, info)
    /\ call' = [op |-> "playFile", fileIndex |-> fileIndex, torrent |-> torrent]
    /\ UNCHANGED <<info, tor, conn, rr, pieceReqs, http, rq, rres, server, sconn, sched, responses, pending, loader, cache>>

\* StreamingManager::handleRequest for a GET of the whole file of the pair:
\* doGet, which connects the found file's destroyed signal to the close of
\* the connection once it has sent the 206
RemovalGet(fileIndex, torrent) ==
    /\ ~http.handled
    /\ conn.open
    /\ LET request == [method |-> "GET",
                       path |-> <<"/">> \o StreamFile(fileIndex, torrent, info).name,
                       range |-> OpenRangeText(0)]
           found == FindFileByPath(files, request.path)
           out == HandleRequestOutcome(request, conn, rr, tor, pieceReqs, files, info)
       IN  /\ conn' = out.conn
           /\ rr' = out.rr
           /\ tor' = out.tor
           /\ pieceReqs' = out.reqs
           /\ http' = [handled |-> TRUE,
                       registered |-> found # <<>>,
                       request |-> request,
                       file |-> IF found # <<>> THEN found[1] ELSE NoFile]
    /\ call' = [op |-> "get", fileIndex |-> fileIndex, torrent |-> torrent]
    /\ UNCHANGED <<info, files, rq, rres, server, sconn, sched, responses, pending, loader, cache>>

\* StreamingManager::removeServingTorrent(torrent): the torrent's StreamFiles
\* are deleted and erased; destroyed of the file a GET streams reaches the
\* handler connected in doGet, which closes the connection
RemovalRemoveServingTorrent(torrent) ==
    /\ files' = removeServingTorrent(files, torrent)
    /\ call' = [op |-> "removeServingTorrent", fileIndex |-> -1, torrent |-> torrent,
                removed |-> Len(files) - Len(files')]
    /\ IF /\ rr.state # "none" /\ ~rr.fileDestroyed /\ ~conn.destroyed
          /\ \E k \in 1..Len(files) : files[k] = http.file /\ files[k].torrent = torrent
       THEN /\ conn' = OnFileDestroyed(conn)
            /\ rr' = [rr EXCEPT !.fileDestroyed = TRUE,
                                !.removedLive = (rr.state = "live" /\ rr.leftSize > 0)]
       ELSE UNCHANGED <<conn, rr, responses, pending, loader, cache>>
    /\ UNCHANGED <<info, tor, pieceReqs, http, rq, rres, server, sconn, sched, responses, pending, loader, cache>>

NextRemoval ==
    \/ \E fileIndex \in FileIndexes, torrent \in Torrents : RemovalPlayFile(fileIndex, torrent)
    \/ \E fileIndex \in FileIndexes, torrent \in Torrents : RemovalGet(fileIndex, torrent)
    \/ \E torrent \in Torrents : RemovalRemoveServingTorrent(torrent)

SpecRemoval == InitRemoval /\ [][NextRemoval]_vars

(***************************************************************************)
(* SpecResponse: the StreamResponses of one StreamingConnection.  The      *)
(* connection is the one of SpecConnection; responses holds, by request    *)
(* number, the StreamResponse that StreamRequest::send made: the declared  *)
(* content size, m_maxSize, the bytes written through write() and the      *)
(* number of times completed was emitted.  A caller keeps to the assert of *)
(* write(): it never writes more than pendingSize().                       *)
(***************************************************************************)
MaxContentSize == 2
MaxCompletions == 2

NoResponse == [exists |-> FALSE, declared |-> 0, maxSize |-> 0, written |-> 0, completed |-> 0]

\* StreamResponse::StreamResponse
NewStreamResponse(maxSize) ==
    [exists |-> TRUE, declared |-> maxSize, maxSize |-> maxSize, written |-> 0,
     completed |-> 0]

\* StreamResponse::write: m_maxSize is counted down, and completed emitted
\* when nothing is left
StreamResponseWrite(resp, len) ==
    [resp EXCEPT !.maxSize = @ - len,
                 !.written = @ + len,
                 !.completed = IF resp.maxSize - len <= 0 THEN @ + 1 ELSE @]

InitResponse ==
    /\ sconn = NewStreamingConnection
    /\ responses = [id \in 1..MaxRequests |-> NoResponse]
    /\ pending = <<>>
    /\ loader = <<>>
    /\ cache = <<>>
    /\ sched = <<>>
    /\ files = <<>>
    /\ server = ListeningServer
    /\ call = NoCall
    /\ info = Geometry(BUFFER_SIZE, 0, 1)
    /\ tor = [have |-> {}, deadline |-> <<>>, resets |-> <<>>, issued |-> {}]
    /\ conn = [NewConnection EXCEPT !.open = FALSE, !.destroyed = TRUE]
    /\ rr = NoCursor
    /\ pieceReqs = {}
    /\ http = [handled |-> FALSE, registered |-> FALSE, request |-> NoRequest]
    /\ rq = [unit |-> <<>>, eq |-> FALSE, first |-> <<>>, dash |-> FALSE,
             last |-> <<>>, fileSize |-> 1]
    /\ rres = NoResult

\* The socket's readyRead: parseRequest
ResponseReceive(chunk, asserts) ==
    /\ Receive(chunk, asserts)
    /\ UNCHANGED responses

\* StreamRequest::send with a content size: the status line and headers are
\* written; with content a StreamResponse is made, without it the request
\* completes at once and its completed runs the connection's freeRequest
ResponseSend(id, keepAlive, contentSize) ==
    /\ ConnectionRuns
    /\ sconn.requests[id].state = "pending"
    /\ LET sent == WriteSocket([sconn EXCEPT !.requests[id].closeAfter = ~keepAlive], 200)
       IN  IF contentSize # 0
           THEN /\ sconn' = [sent EXCEPT !.requests[id].state = "streaming", !.op = "send"]
                /\ responses' = [responses EXCEPT ![id] = NewStreamResponse(contentSize)]
           ELSE /\ sconn' = [freeRequest([sent EXCEPT !.requests[id].state = "done"])
                             EXCEPT !.op = "send"]
                /\ UNCHANGED responses
    /\ UNCHANGED <<info, files, tor, conn, rr, pieceReqs, http, rq, rres, server, call, sched,
                   pending, loader, cache>>

\* StreamResponse::write of len bytes on the response of request id, which
\* lives as long as its StreamRequest does; completed, when emitted, runs
\* StreamRequest's handler and through it the connection's freeRequest
ResponseWrite(id, len) ==
    /\ ConnectionRuns
    /\ responses[id].exists
    /\ sconn.requests[id].state # "deleted"
    /\ len <= responses[id].maxSize
    /\ responses[id].completed < MaxCompletions
    /\ LET resp == StreamResponseWrite(responses[id], len)
           wrote == IF sconn.socketOpen /\ len > 0 THEN [sconn EXCEPT !.queued = 1]
                    ELSE sconn
       IN  /\ responses' = [responses EXCEPT ![id] = resp]
           /\ sconn' = [(IF resp.completed > responses[id].completed
                          THEN freeRequest([wrote EXCEPT !.requests[id].state = "done"])
                          ELSE wrote)
                        EXCEPT !.op = "write"]
    /\ UNCHANGED <<info, files, tor, conn, rr, pieceReqs, http, rq, rres, server, call, sched,
                   pending, loader, cache>>

\* The socket's disconnected: freeRequest
ResponseSocketDisconnected ==
    /\ SocketDisconnected
    /\ UNCHANGED responses

NextResponse ==
    \/ \E chunk \in Chunks, asserts \in BOOLEAN : ResponseReceive(chunk, asserts)
    \/ \E id \in 1..MaxRequests, keepAlive \in BOOLEAN, contentSize \in 0..MaxContentSize :
           id <= Len(sconn.requests) /\ ResponseSend(id, keepAlive, contentSize)
    \/ \E id \in 1..MaxRequests, len \in 0..MaxContentSize :
           id <= Len(sconn.requests) /\ ResponseWrite(id, len)
    \/ ResponseSocketDisconnected

SpecResponse == InitResponse /\ [][NextResponse]_vars

(***************************************************************************)
(* SpecLoader: the NetImageLoader of the HtmlBrowser.  replies are the     *)
(* QNetworkReplies that m_netManager->get made, in order, each with the    *)
(* URL of its request and its state: "inFlight", then "finished" (no       *)
(* error), "error" (a network error) or "aborted".  A reply's URL is the   *)
(* URL of its request.                                                     *)
(***************************************************************************)
MaxReplies == 3

Urls == {"a", "b"}

NewNetImageLoader ==
    [activeRequests |-> {},                 \* m_activeRequests
     dirty |-> {},                          \* m_dirty, by reply number
     readIncompleteImagesEnqueued |-> FALSE,
     replies |-> <<>>,
     op |-> "new"]

\* NetImageLoader::_loadImpl
LoadImpl(l, url) ==
    IF url \in l.activeRequests THEN l
    ELSE [l EXCEPT !.activeRequests = @ \cup {url},
                   !.replies = Append(@, [url |-> url, state |-> "inFlight"])]

\* NetImageLoader::handleReplyFinished for reply k, error telling whether
\* reply->error() is an error
HandleReplyFinished(l, k, error) ==
    IF error THEN [l EXCEPT !.dirty = @ \ {k}]
    ELSE [l EXCEPT !.dirty = @ \ {k},
                   !.activeRequests = @ \ {l.replies[k].url}]

\* The handler of abortDownloads connected in _loadImpl for reply k: the
\* URL leaves the active set and the reply is aborted, which finishes it
\* with an error
AbortReply(l, k) ==
    LET removed == [l EXCEPT !.activeRequests = @ \ {l.replies[k].url},
                             !.dirty = @ \ {k},
                             !.replies[k].state = "aborted"]
    IN  HandleReplyFinished(removed, k, TRUE)

RECURSIVE AbortReplies(_, _)
AbortReplies(l, k) ==
    IF k > Len(l.replies) THEN l
    ELSE AbortReplies(IF l.replies[k].state = "inFlight" THEN AbortReply(l, k) ELSE l, k + 1)

InitLoader ==
    /\ loader = NewNetImageLoader
    /\ sconn = <<>>
    /\ responses = <<>>
    /\ pending = <<>>
    /\ cache = <<>>
    /\ sched = <<>>
    /\ files = <<>>
    /\ server = ListeningServer
    /\ call = NoCall
    /\ info = Geometry(BUFFER_SIZE, 0, 1)
    /\ tor = [have |-> {}, deadline |-> <<>>, resets |-> <<>>, issued |-> {}]
    /\ conn = [NewConnection EXCEPT !.open = FALSE, !.destroyed = TRUE]
    /\ rr = NoCursor
    /\ pieceReqs = {}
    /\ http = [handled |-> FALSE, registered |-> FALSE, request |-> NoRequest]
    /\ rq = [unit |-> <<>>, eq |-> FALSE, first |-> <<>>, dash |-> FALSE,
             last |-> <<>>, fileSize |-> 1]
    /\ rres = NoResult

loaderOthers == <<info, files, tor, conn, rr, pieceReqs, http, rq, rres, server, call, sconn,
                  sched, responses, pending, cache>>

\* NetImageLoader::load(url): _loadImpl, queued on the loader's thread
LoaderLoad(url) ==
    /\ url \in loader.activeRequests \/ Len(loader.replies) < MaxReplies
    /\ loader' = [LoadImpl(loader, url) EXCEPT !.op = "load"]
    /\ UNCHANGED loaderOthers

\* downloadProgress of reply k: handleProgressUpdated
LoaderProgress(k) ==
    /\ loader.replies[k].state = "inFlight"
    /\ loader' = [loader EXCEPT !.dirty = @ \cup {k},
                                !.readIncompleteImagesEnqueued = TRUE,
                                !.op = "progress"]
    /\ UNCHANGED loaderOthers

\* The single-shot timer of handleProgressUpdated: readIncompleteImages
LoaderReadIncompleteImages ==
    /\ loader.readIncompleteImagesEnqueued
    /\ loader' = [loader EXCEPT !.dirty = {},
                                !.readIncompleteImagesEnqueued = FALSE,
                                !.op = "readIncompleteImages"]
    /\ UNCHANGED loaderOthers

\* QNetworkAccessManager::finished for reply k, with or without an error
LoaderReplyFinished(k, error) ==
    /\ loader.replies[k].state = "inFlight"
    /\ loader' = [HandleReplyFinished(
                      [loader EXCEPT !.replies[k].state =
                                          IF error THEN "error" ELSE "finished"],
                      k, error)
                  EXCEPT !.op = "finished"]
    /\ UNCHANGED loaderOthers

\* abortDownloads is emitted: the handler of every reply in flight
LoaderAbortDownloads ==
    /\ loader' = [AbortReplies(loader, 1) EXCEPT !.op = "abortDownloads"]
    /\ UNCHANGED loaderOthers

NextLoader ==
    \/ \E url \in Urls : LoaderLoad(url)
    \/ \E k \in 1..MaxReplies : k <= Len(loader.replies) /\ LoaderProgress(k)
    \/ LoaderReadIncompleteImages
    \/ \E k \in 1..MaxReplies, error \in BOOLEAN :
           k <= Len(loader.replies) /\ LoaderReplyFinished(k, error)
    \/ LoaderAbortDownloads

SpecLoader == InitLoader /\ [][NextLoader]_vars

(***************************************************************************)
(* SpecCache: the HtmlBrowser::ImageCache.  A node of the std::list is     *)
(* known by its address, a number; an iterator is the address of its node, *)
(* and a new node takes the lowest address that is free, which may be the  *)
(* address of a node erased before.  list holds the addresses from front   *)
(* to back, nodes the data at each address, map the iterators by URL.  A   *)
(* QImage is its sizeInBytes(); a timer is the time since its (re)start.   *)
(***************************************************************************)
CLEAN_TIMEOUT == 50000
MAX_SIZE_IN_BYTES == 100 * 1024 * 1024

MaxAge == 75000
TimeStep == CLEAN_TIMEOUT \div 2
ImageSizes == {0, 50 * MiB}
CacheUrls == {"a", "b", "c"}

Restrict(f, S) == [x \in S |-> f[x]]

NewImageCache ==
    [list |-> <<>>, nodes |-> <<>>, map |-> <<>>, sizeInBytes |-> 0,
     asserted |-> FALSE,    \* the assert of clean failed
     op |-> "new", url |-> ""]

\* std::list::erase(iter)
ListErase(c, iter) ==
    [c EXCEPT !.list = SelectSeq(@, LAMBDA a : a # iter),
              !.nodes = Restrict(@, DOMAIN @ \ {iter})]

\* std::list::push_front(d): the list with a new node at its front;
\* begin() is then Head(list)
ListPushFront(c, d) ==
    LET used == {c.list[k] : k \in 1..Len(c.list)}
        free == (1..(Len(c.list) + 1)) \ used
        a == CHOOSE x \in free : \A y \in free : x <= y
    IN  [c EXCEPT !.list = <<a>> \o @,
                  !.nodes = [x \in DOMAIN @ \cup {a} |-> IF x = a THEN d ELSE @[x]]]

\* QHash's operator[] assignment and remove
MapSet(c, url, iter) ==
    [c EXCEPT !.map = [u \in DOMAIN @ \cup {url} |-> IF u = url THEN iter ELSE @[u]]]

MapRemove(c, url) == [c EXCEPT !.map = Restrict(@, DOMAIN @ \ {url})]

\* Mutant of CacheInsert: the size of a replaced image is not taken off
CacheInsertKeepsOldSize(c, url, image, isPending) ==
    LET c1 == IF url \in DOMAIN c.map
              THEN MapRemove(ListErase(c, c.map[url]), url)
              ELSE c
        d == [url |-> url, image |-> image, pending |-> isPending, timer |-> 0]
        c2 == ListPushFront([c1 EXCEPT !.sizeInBytes = @ + image], d)
    IN  MapSet(c2, url, Head(c2.list))

\* ImageCache::insert
CacheInsert(c, url, image, isPending) ==
    LET c1 == IF url \in DOMAIN c.map
              THEN MapRemove(
                       ListErase([c EXCEPT !.sizeInBytes = @ - c.nodes[c.map[url]].image],
                                 c.map[url]),
                       url)
              ELSE c
        d == [url |-> url, image |-> image, pending |-> isPending, timer |-> 0]
        c2 == ListPushFront([c1 EXCEPT !.sizeInBytes = @ + image], d)
    IN  MapSet(c2, url, Head(c2.list))

\* ImageCache::value: the cache it leaves (what it returns is the image and
\* the pending flag of the entry, or nothing)
CacheValue(c, url) ==
    IF url \notin DOMAIN c.map THEN c
    ELSE LET iter == c.map[url]
             d == c.nodes[iter]
             c1 == ListPushFront(ListErase(c, iter), [d EXCEPT !.timer = 0])
         IN  MapSet(c1, url, Head(c1.list))

\* ImageCache::clean
RECURSIVE CacheClean(_)
CacheClean(c) ==
    IF c.list # <<>>
       /\ (c.sizeInBytes >= MAX_SIZE_IN_BYTES
           \/ c.nodes[c.list[Len(c.list)]].timer > CLEAN_TIMEOUT)
    THEN LET back == c.list[Len(c.list)]
             d == c.nodes[back]
             c1 == [c EXCEPT !.sizeInBytes = @ - d.image,
                             !.asserted = @ \/ (c.sizeInBytes - d.image < 0)]
         IN  CacheClean(ListErase(MapRemove(c1, d.url), back))
    ELSE c

InitCache ==
    /\ cache = NewImageCache
    /\ loader = <<>>
    /\ sconn = <<>>
    /\ responses = <<>>
    /\ pending = <<>>
    /\ sched = <<>>
    /\ files = <<>>
    /\ server = ListeningServer
    /\ call = NoCall
    /\ info = Geometry(BUFFER_SIZE, 0, 1)
    /\ tor = [have |-> {}, deadline |-> <<>>, resets |-> <<>>, issued |-> {}]
    /\ conn = [NewConnection EXCEPT !.open = FALSE, !.destroyed = TRUE]
    /\ rr = NoCursor
    /\ pieceReqs = {}
    /\ http = [handled |-> FALSE, registered |-> FALSE, request |-> NoRequest]
    /\ rq = [unit |-> <<>>, eq |-> FALSE, first |-> <<>>, dash |-> FALSE,
             last |-> <<>>, fileSize |-> 1]
    /\ rres = NoResult

cacheOthers == <<info, files, tor, conn, rr, pieceReqs, http, rq, rres, server, call, sconn,
                 sched, responses, pending, loader>>

\* ImageCache::insert(url, image, pending)
Insert(url, image, isPending) ==
    /\ cache' = [CacheInsert(cache, url, image, isPending) EXCEPT !.op = "insert", !.url = url]
    /\ UNCHANGED cacheOthers

\* ImageCache::value(url)
Value(url) ==
    /\ cache' = [CacheValue(cache, url) EXCEPT !.op = "value", !.url = url]
    /\ UNCHANGED cacheOthers

\* The cache's timer fires: clean
Clean ==
    /\ cache' = [CacheClean(cache) EXCEPT !.op = "clean", !.url = ""]
    /\ UNCHANGED cacheOthers

\* Time passes: every entry's timer runs on
CacheTimePasses ==
    /\ \E a \in DOMAIN cache.nodes : cache.nodes[a].timer < MaxAge
    /\ cache' = [cache EXCEPT
                    !.nodes = [a \in DOMAIN @ |->
                                  [@[a] EXCEPT !.timer = Min(@ + TimeStep, MaxAge)]],
                    !.op = "time", !.url = ""]
    /\ UNCHANGED cacheOthers

NextCache ==
    \/ \E url \in CacheUrls, image \in ImageSizes, isPending \in BOOLEAN :
           Insert(url, image, isPending)
    \/ \E url \in CacheUrls : Value(url)
    \/ Clean
    \/ CacheTimePasses

SpecCache == InitCache /\ [][NextCache]_vars

(***************************************************************************)
(* SpecPending: StreamingServer::m_pendingRequest, a vector of QPointers   *)
(* to the StreamRequests that the connections published.  A request is a   *)
(* number, 0 the null pointer; a QPointer to a request that was destroyed  *)
(* reads as null.  returned holds the requests nextPendingRequest handed   *)
(* out, result and popped what its last call returned and how many entries *)
(* it took off the vector.                                                 *)
(***************************************************************************)
MaxPendingRequests == 4

NewStreamingServer ==
    [pendingRequest |-> <<>>,   \* m_pendingRequest, from front to back
     created |-> 0,             \* the StreamRequests created so far
     alive |-> {},              \* those not destroyed
     returned |-> {},
     result |-> 0, popped |-> 0, op |-> "new"]

\* QPointer<StreamRequest> to StreamRequest *
Pointee(request, alive) == IF request \in alive THEN request ELSE 0

\* Mutant of PopPending: one entry is taken, destroyed or not
PopPendingOnce(list, alive) ==
    [request |-> Pointee(list[Len(list)], alive),
     list |-> SubSeq(list, 1, Len(list) - 1)]

\* The do-while loop of StreamingServer::nextPendingRequest on a vector that
\* is not empty
RECURSIVE PopPending(_, _)
PopPending(list, alive) ==
    LET request == Pointee(list[Len(list)], alive)
        rest == SubSeq(list, 1, Len(list) - 1)
    IN  IF request = 0 /\ rest # <<>> THEN PopPending(rest, alive)
        ELSE [request |-> request, list |-> rest]

\* StreamingServer::nextPendingRequest: the request returned and the vector
\* left
nextPendingRequest(list, alive) ==
    IF list = <<>> THEN [request |-> 0, list |-> list]
    ELSE PopPending(list, alive)

InitPending ==
    /\ pending = NewStreamingServer
    /\ cache = <<>>
    /\ loader = <<>>
    /\ sconn = <<>>
    /\ responses = <<>>
    /\ sched = <<>>
    /\ files = <<>>
    /\ server = ListeningServer
    /\ call = NoCall
    /\ info = Geometry(BUFFER_SIZE, 0, 1)
    /\ tor = [have |-> {}, deadline |-> <<>>, resets |-> <<>>, issued |-> {}]
    /\ conn = [NewConnection EXCEPT !.open = FALSE, !.destroyed = TRUE]
    /\ rr = NoCursor
    /\ pieceReqs = {}
    /\ http = [handled |-> FALSE, registered |-> FALSE, request |-> NoRequest]
    /\ rq = [unit |-> <<>>, eq |-> FALSE, first |-> <<>>, dash |-> FALSE,
             last |-> <<>>, fileSize |-> 1]
    /\ rres = NoResult

pendingOthers == <<info, files, tor, conn, rr, pieceReqs, http, rq, rres, server, call, sconn,
                   sched, responses, loader, cache>>

\* readyRequest of a connection: the handler connected in
\* handleNewConnection pushes the new request
ReadyRequest ==
    /\ pending.created < MaxPendingRequests
    /\ LET request == pending.created + 1
       IN  pending' = [pending EXCEPT !.pendingRequest = Append(@, request),
                                      !.created = request,
                                      !.alive = @ \cup {request},
                                      !.op = "readyRequest"]
    /\ UNCHANGED pendingOthers

\* A StreamRequest is destroyed (its connection freed it, or went away)
RequestDestroyed(request) ==
    /\ request \in pending.alive
    /\ pending' = [pending EXCEPT !.alive = @ \ {request}, !.op = "destroyed"]
    /\ UNCHANGED pendingOthers

\* StreamingServer::nextPendingRequest is called
NextPendingRequest ==
    /\ LET out == nextPendingRequest(pending.pendingRequest, pending.alive)
       IN  pending' = [pending EXCEPT
                          !.pendingRequest = out.list,
                          !.returned = IF out.request # 0 THEN @ \cup {out.request} ELSE @,
                          !.result = out.request,
                          !.popped = Len(pending.pendingRequest) - Len(out.list),
                          !.op = "nextPendingRequest"]
    /\ UNCHANGED pendingOthers

NextPending ==
    \/ ReadyRequest
    \/ \E request \in 1..MaxPendingRequests : RequestDestroyed(request)
    \/ NextPendingRequest

SpecPending == InitPending /\ [][NextPending]_vars

(***************************************************************************)
(* Claims C31-C40                                                          *)
(***************************************************************************)

\* C31: the assertions of the cursor never fail: feed is never called with
\* no bytes left nor with more bytes than are left, notifyBlockReceived is
\* never called while the block-pending flag is false, and no read step is
\* issued for a cursor with no bytes left, whatever the order of piece
\* completions, piece errors and bytesWritten notifications.
C31_AssertionsHold ==
    [][/\ rr'.failed = {}
       /\ (rr'.steps > rr.steps => rr'.leftSize # 0)]_vars

\* A cursor that was fed several blocks, each taken by a notifyBlockReceived,
\* and ran to its end
C31_Witness ==
    /\ rr.state = "done" /\ Len(rr.fed) >= 2 /\ rr.steps >= 2
    /\ rr.failed = {}

\* C32, as claimed: a connection has at most one request in flight:
\* parseRequest is never entered while m_request is set, so its entry assert
\* never fails, and no second StreamRequest is created while an earlier one
\* of the connection has not completed.
C32_OneRequestInFlightAsClaimed ==
    /\ ~sconn.aborted
    /\ Cardinality(InFlight(sconn)) <= 1

\* C33: resetPieceDeadline is issued only by the cancellation handler: only
\* in a step that destroys a cursor with bytes left while its StreamFile
\* exists.  The step in which a cursor with no bytes left finishes issues
\* none and leaves every deadline as it is, so the pieces of its last
\* lookahead window keep the deadlines it set.
C33_ResetOnlyOnCancel ==
    [][/\ (tor'.resets # tor.resets =>
              /\ rr.state = "live" /\ rr'.state = "cancelled"
              /\ rr.leftSize > 0 /\ ~rr.fileDestroyed)
       /\ (rr.state = "live" /\ rr'.state = "done" =>
              /\ rr.leftSize = 0
              /\ tor'.resets = tor.resets
              /\ tor'.deadline = tor.deadline)]_vars

\* A cursor finished with nothing left, no deadline was ever reset, and the
\* engine still holds a deadline for a piece of the cursor's last window
C33_Witness ==
    /\ rr.state = "done" /\ ~rr.fileDestroyed
    /\ \A p \in PieceIndices(info) : tor.resets[p] = 0
    /\ \E p \in PieceIndices(info) :
           /\ p >= rr.advanceRange.start /\ p <= rr.advanceRange.end
           /\ tor.deadline[p] # 0

\* The pieces of the lookahead window the cursor recorded
WindowOf(r) == {p \in PieceIndices(info) : p >= r.advanceRange.start /\ p <= r.advanceRange.end}

\* C34, as claimed: two live cursors of one file are independent in piece
\* priority: the step that cancels one cursor issues no resetPieceDeadline
\* for a piece that is then the current piece, or in the lookahead window,
\* of the other cursor while that one lives.
C34_CursorsIndependentAsClaimed ==
    [][\A k \in CursorIds :
          rr[k].state = "live" /\ rr'[k].state = "cancelled" =>
              \A o \in CursorIds \ {k} :
                  rr[o].state = "live" /\ rr[o].leftSize > 0 =>
                      \A p \in {CurrentPiece(rr[o])} \cup WindowOf(rr[o]) :
                          tor'.resets[p] = tor.resets[p]]_vars

\* C35: after every read step whose current piece p is below the file's last
\* piece L, the window the cursor recorded is exactly
\* [p + 1, min(p + ceil(BUFFER_SIZE / pieceLength), L)], whatever the last
\* byte of the requested range is; after a step with p = L the recorded
\* window is the one recorded before the step.
C35_RecordedWindow ==
    [][IsReadStep =>
        LET p == CurrentPiece(rr')
            L == LastFilePiece(info)
            ahead == (BUFFER_SIZE + info.pieceLength - 1) \div info.pieceLength
        IN  IF p < L
            THEN /\ rr'.advanceRange.start = p + 1
                 /\ rr'.advanceRange.end = (IF p + ahead < L THEN p + ahead ELSE L)
            ELSE /\ p = L
                 /\ rr'.advanceRange = rr.advanceRange]_vars

\* A read step below the file's last piece whose recorded window holds a
\* piece that lies wholly after the last byte of the requested range
C35_Witness ==
    /\ sched.op = "step" /\ sched.calls # <<>>
    /\ CurrentPiece(rr) < LastFilePiece(info)
    /\ rr.advanceRange.start > MapFile(info, rr.first + rr.size - 1, 1).index
    /\ rr.advanceRange.end >= rr.advanceRange.start

\* The files of the registry that belong to other torrents, in registry order
OfOtherTorrents(fs, torrent) == SelectSeq(fs, LAMBDA f : f.torrent # torrent)

\* C36: removeServingTorrent(t) leaves every StreamFile of another torrent
\* registered and unchanged, in the same relative order, and closes no
\* connection that is streaming a file of another torrent.
C36_RemovalFrame ==
    [][call'.op = "removeServingTorrent" =>
        LET t == call'.torrent
        IN  /\ OfOtherTorrents(files', t) = OfOtherTorrents(files, t)
            /\ (rr.state = "live" /\ http.file.torrent # t => conn' = conn /\ rr' = rr)]_vars

\* A removal deleted a file of one torrent while two files of the other
\* torrent were registered and the open connection was streaming one of them
C36_Witness ==
    /\ call.op = "removeServingTorrent" /\ call.removed >= 1
    /\ Len(OfOtherTorrents(files, call.torrent)) = 2
    /\ rr.state = "live" /\ http.file.torrent \notin {"", call.torrent}
    /\ conn.open

\* C37, as claimed: for every StreamResponse, pendingSize() is the declared
\* content size less the bytes written through write() and is never
\* negative; completed was emitted exactly once when pendingSize() is 0 and
\* not before; and once a response has completed, the connection has freed
\* that request, and has closed the socket unless the response carried
\* connection: keep-alive.
C37_ResponseCompletionAsClaimed ==
    \A id \in 1..Len(sconn.requests) :
        responses[id].exists =>
            /\ responses[id].maxSize = responses[id].declared - responses[id].written
            /\ responses[id].maxSize >= 0
            /\ responses[id].completed = (IF responses[id].maxSize = 0 THEN 1 ELSE 0)
            /\ (responses[id].maxSize = 0 =>
                    /\ sconn.requests[id].state = "deleted"
                    /\ (sconn.requests[id].closeAfter => ~sconn.socketOpen))

\* What holds of every StreamResponse: the accounting of pendingSize()
ResponseAccounting ==
    \A id \in 1..Len(sconn.requests) :
        responses[id].exists =>
            /\ responses[id].maxSize = responses[id].declared - responses[id].written
            /\ responses[id].maxSize >= 0
            /\ (responses[id].completed >= 1 <=> responses[id].maxSize = 0)

\* What holds of a connection that was sent one request only
CompletionOfOnlyRequest ==
    Len(sconn.requests) = 1 /\ sconn.receivedData = <<>> /\ ~sconn.aborted =>
        C37_ResponseCompletionAsClaimed

\* The replies in flight for a URL
RepliesInFlight(url) ==
    {k \in 1..Len(loader.replies) :
        loader.replies[k].url = url /\ loader.replies[k].state = "inFlight"}

\* C38, as claimed: the active set of the NetImageLoader holds a URL exactly
\* while a reply for that URL is in flight: at most one reply is in flight
\* per URL, and once a reply has finished, without error, with a network
\* error or by abortDownloads, its URL is not in the active set.
C38_ActiveSetAsClaimed ==
    \A url \in Urls :
        /\ Cardinality(RepliesInFlight(url)) <= 1
        /\ (url \in loader.activeRequests <=> RepliesInFlight(url) # {})

\* What holds: at most one reply in flight per URL, every URL with a reply in
\* flight is in the active set, and a URL in the active set with no reply in
\* flight is one whose last reply ended in a network error
ActiveSetButForErrors ==
    \A url \in Urls :
        /\ Cardinality(RepliesInFlight(url)) <= 1
        /\ (RepliesInFlight(url) # {} => url \in loader.activeRequests)
        /\ (url \in loader.activeRequests /\ RepliesInFlight(url) = {} =>
               \E k \in 1..Len(loader.replies) :
                   /\ loader.replies[k].url = url /\ loader.replies[k].state = "error"
                   /\ \A j \in (k + 1)..Len(loader.replies) : loader.replies[j].url # url)

\* The cached entries of the list, their timers left out
CacheEntries(c) ==
    {[url |-> c.nodes[c.list[k]].url, image |-> c.nodes[c.list[k]].image,
      pending |-> c.nodes[c.list[k]].pending] : k \in 1..Len(c.list)}

RECURSIVE SumOfImages(_, _)
SumOfImages(c, k) ==
    IF k > Len(c.list) THEN 0 ELSE c.nodes[c.list[k]].image + SumOfImages(c, k + 1)

\* The map's keys are the URLs of the list entries, one entry per URL, each
\* iterator at the entry of its URL, and the size is the sum of the images
CacheConsistent(c) ==
    /\ DOMAIN c.map = {c.nodes[c.list[k]].url : k \in 1..Len(c.list)}
    /\ \A j, k \in 1..Len(c.list) : c.nodes[c.list[j]].url = c.nodes[c.list[k]].url => j = k
    /\ \A url \in DOMAIN c.map :
           /\ \E k \in 1..Len(c.list) : c.list[k] = c.map[url]
           /\ c.nodes[c.map[url]].url = url
    /\ c.sizeInBytes = SumOfImages(c, 1)
    /\ c.sizeInBytes >= 0
    /\ ~c.asserted

\* C39: after any sequence of insert, value and clean the map's keys are
\* exactly the URLs of the list entries, with one entry per URL and each map
\* iterator at its own entry, and m_sizeInBytes is the sum of the sizes of
\* the cached images, so that the assert of clean never fails; and value(url)
\* moves the entry of url to the front and leaves the set of entries as it
\* was.
C39_CacheConsistent ==
    [][/\ CacheConsistent(cache')
       /\ (cache'.op = "value" =>
              /\ CacheEntries(cache') = CacheEntries(cache)
              /\ Len(cache'.list) = Len(cache.list)
              /\ (cache'.url \in DOMAIN cache.map =>
                     /\ cache'.nodes[Head(cache'.list)].url = cache'.url
                     /\ cache'.map[cache'.url] = Head(cache'.list)))]_vars

\* value was called for a URL of a cache of three entries with images of
\* some size: its entry is at the front, its timer restarted, before two
\* older entries
C39_Witness ==
    /\ cache.op = "value" /\ Len(cache.list) = 3
    /\ cache.nodes[cache.list[1]].url = cache.url
    /\ cache.nodes[cache.list[1]].timer = 0
    /\ cache.nodes[cache.list[2]].timer > 0
    /\ cache.nodes[cache.list[3]].timer > 0
    /\ cache.sizeInBytes > 0

\* The places of the vector whose request is not destroyed
LivePlaces(p) == {k \in 1..Len(p.pendingRequest) : p.pendingRequest[k] \in p.alive}

\* C40: nextPendingRequest returns the request enqueued last among those not
\* destroyed and takes it, and every destroyed entry above it, off the
\* vector; what it returns as non-null is not destroyed; it returns null
\* when the vector is empty or holds destroyed entries only; and no request
\* is returned twice.
C40_NextPendingRequest ==
    [][pending'.op = "nextPendingRequest" =>
        LET live == LivePlaces(pending)
        IN  /\ IF live = {} THEN pending'.result = 0
               ELSE LET m == CHOOSE k \in live : \A j \in live : j <= k
                    IN  /\ pending'.result = pending.pendingRequest[m]
                        /\ pending'.pendingRequest = SubSeq(pending.pendingRequest, 1, m - 1)
            /\ (pending'.result # 0 =>
                    /\ pending'.result \in pending.alive
                    /\ pending'.result \notin pending.returned)]_vars

\* A call that returned a live request from under two destroyed entries and
\* left an older entry on the vector
C40_Witness ==
    /\ pending.op = "nextPendingRequest"
    /\ pending.result # 0 /\ pending.popped = 3
    /\ pending.pendingRequest # <<>>

====
